---------------------------- MODULE Spec2Model ----------------------------
(***************************************************************************)
(* A model of CodeMap: the ingestion data model, the local scanner, the    *)
(* GitHub loader, the ingestion orchestrator, the code analyzer and the    *)
(* dependency mapper.                                                      *)
(*                                                                         *)
(* Python strings are TLA+ strings (taken apart with Len, SubSeq, Head and  *)
(* Tail), Python lists are sequences, and Python dicts are sequences of    *)
(* <<key, value>> pairs in insertion order.  None is the string "None"     *)
(* where the other values are records or sequences.                        *)
(***************************************************************************)
EXTENDS Integers, Sequences, FiniteSets, TLC

VARIABLES
    ingestion,      \* a CodebaseIngestion that add_file is called on
    addCalls,       \* the FileInfo arguments of the add_file calls so far
    fs,             \* the file system the scanner reads: path -> node
    scanned,        \* the last scanner call and what it returned or raised
    cloneDirs,      \* the clone directories that exist on disk
    mkdtemps,       \* how many temporary directories tempfile.mkdtemp has made
    lastCall,       \* the last loader or orchestrator call and how it ended
    class_extractor,    \* the ClassExtractor's class_hierarchy and inheritance_tree
    function_analyzer,  \* the FunctionAnalyzer's call_graph and reverse_call_graph
    dependency_mapper,  \* the DependencyMapper's two dependency graphs
    lastBuilt,      \* per analyzer, its last build call: the result passed, what
                    \* was returned, and whether it replaced a different result
    analysis,       \* the last analyze or report call and what it returned
    held            \* an AnalysisResult of an earlier analyze that the caller kept

ingestionVars == <<ingestion, addCalls>>
scanVars == <<fs, scanned>>
loaderVars == <<cloneDirs, mkdtemps, lastCall>>

analyzerVars ==
    <<class_extractor, function_analyzer, dependency_mapper, lastBuilt, analysis, held>>

vars ==
    <<ingestion, addCalls, fs, scanned, cloneDirs, mkdtemps, lastCall,
      class_extractor, function_analyzer, dependency_mapper, lastBuilt, analysis, held>>

(***************************************************************************)
(* Bounds of the model.                                                    *)
(***************************************************************************)
MaxAdds == 3
MaxLoc == 2

(***************************************************************************)
(* Generic helpers: sequences and insertion-ordered dicts.                 *)
(***************************************************************************)
Range(s) == {s[i] : i \in DOMAIN s}

RECURSIVE SeqSum(_)
SeqSum(s) == IF s = <<>> THEN 0 ELSE s[1] + SeqSum(Tail(s))

SeqsUpTo(S, n) == UNION {[1..k -> S] : k \in 0..n}

DictKeys(d) == [i \in DOMAIN d |-> d[i][1]]

DictHas(d, k) == \E i \in DOMAIN d : d[i][1] = k

DictIndex(d, k) == CHOOSE i \in DOMAIN d : d[i][1] = k

DictGet(d, k, default) == IF DictHas(d, k) THEN d[DictIndex(d, k)][2] ELSE default

DictSet(d, k, v) ==
    IF DictHas(d, k)
    THEN [d EXCEPT ![DictIndex(d, k)] = <<k, v>>]
    ELSE Append(d, <<k, v>>)

DictValues(d) == [i \in DOMAIN d |-> d[i][2]]

(***************************************************************************)
(* Python string operations.                                               *)
(***************************************************************************)
\* the character at position i, or the empty string past either end
CharAt(s, i) == IF i \in 1..Len(s) THEN SubSeq(s, i, i) ELSE ""

StartsWith(s, prefix) ==
    Len(prefix) <= Len(s) /\ SubSeq(s, 1, Len(prefix)) = prefix

EndsWith(s, suffix) ==
    Len(suffix) <= Len(s) /\ SubSeq(s, Len(s) - Len(suffix) + 1, Len(s)) = suffix

\* sub in s
Contains(s, sub) ==
    \E i \in 1..(Len(s) - Len(sub) + 1) : SubSeq(s, i, i + Len(sub) - 1) = sub

\* s.find(c) and s.rfind(c), one-based; 0 when c does not occur
RECURSIVE FindFrom(_, _, _)
FindFrom(s, c, i) ==
    IF i > Len(s) THEN 0 ELSE IF CharAt(s, i) = c THEN i ELSE FindFrom(s, c, i + 1)

RECURSIVE FindBackFrom(_, _, _)
FindBackFrom(s, c, i) ==
    IF i < 1 THEN 0 ELSE IF CharAt(s, i) = c THEN i ELSE FindBackFrom(s, c, i - 1)

IndexOf(s, c) == FindFrom(s, c, 1)

LastIndexOf(s, c) == FindBackFrom(s, c, Len(s))

UpperChars == "ABCDEFGHIJKLMNOPQRSTUVWXYZ"
LowerChars == "abcdefghijklmnopqrstuvwxyz"

\* the characters of s, as a set
CharsOf(s) == {SubSeq(s, i, i) : i \in 1..Len(s)}

UpperCharSet == CharsOf(UpperChars)

LowerChar(c) ==
    IF c \in UpperCharSet THEN CharAt(LowerChars, IndexOf(UpperChars, c)) ELSE c

RECURSIVE LowerFrom(_, _)
LowerFrom(s, i) ==
    IF i > Len(s) THEN "" ELSE LowerChar(SubSeq(s, i, i)) \o LowerFrom(s, i + 1)

\* s.lower()
Lower(s) == LowerFrom(s, 1)

\* s.split(sep) for a one-character sep
RECURSIVE Split(_, _)
Split(s, sep) ==
    LET i == IndexOf(s, sep) IN
    IF i = 0 THEN <<s>>
    ELSE <<SubSeq(s, 1, i - 1)>> \o Split(SubSeq(s, i + 1, Len(s)), sep)

\* s.lstrip(c) for a one-character c
RECURSIVE LStrip(_, _)
LStrip(s, c) == IF s # "" /\ Head(s) = c THEN LStrip(Tail(s), c) ELSE s

\* s.strip() is empty
IsBlank(s) == \A i \in 1..Len(s) : CharAt(s, i) \in {" ", "\t", "\r", "\n"}

(***************************************************************************)
(* The analyzers as their constructors leave them, and the records of the  *)
(* calls made on them.                                                     *)
(***************************************************************************)
NewClassExtractor == [class_hierarchy |-> <<>>, inheritance_tree |-> <<>>]

NewFunctionAnalyzer == [call_graph |-> <<>>, reverse_call_graph |-> <<>>]

NewDependencyMapper == [dependency_graph |-> <<>>, reverse_dependency_graph |-> <<>>]

NewCodeAnalyzer ==
    [class_extractor |-> NewClassExtractor,
     function_analyzer |-> NewFunctionAnalyzer,
     dependency_mapper |-> NewDependencyMapper]

NotBuilt == [built |-> FALSE]

NeverBuilt ==
    [class_extractor |-> NotBuilt, function_analyzer |-> NotBuilt,
     dependency_mapper |-> NotBuilt]

NotAnalyzed == [op |-> "none"]

\* the caller has kept no result
NothingHeld == [tag |-> "None"]

(***************************************************************************)
(* ingest/models.py                                                        *)
(***************************************************************************)
FileType == {"PYTHON", "JAVASCRIPT", "TYPESCRIPT", "JAVA", "GO", "UNKNOWN"}

NewMetadata(source_type, source_location) ==
    [source_type |-> source_type,
     source_location |-> source_location,
     total_files |-> 0,
     total_lines |-> 0,
     primary_language |-> "None",
     languages |-> <<>>]

NewIngestion(metadata) ==
    [metadata |-> metadata, files |-> <<>>, errors |-> <<>>, warnings |-> <<>>]

AddFileCountsUnknown(ing, file_info) ==
    LET lang == file_info.file_type
        md == ing.metadata
    IN [ing EXCEPT
          !.files = Append(@, file_info),
          !.metadata = [md EXCEPT
              !.total_files = @ + 1,
              !.total_lines = @ + file_info.lines_of_code,
              !.languages = DictSet(@, lang, DictGet(md.languages, lang, 0) + 1)]]

AddFile(ing, file_info) ==
    LET lang == file_info.file_type
        md == ing.metadata
    IN [ing EXCEPT
          !.files = Append(@, file_info),
          !.metadata = [md EXCEPT
              !.total_files = @ + 1,
              !.total_lines = @ + file_info.lines_of_code,
              !.languages =
                  IF file_info.file_type # "UNKNOWN"
                  THEN DictSet(@, lang, DictGet(md.languages, lang, 0) + 1)
                  ELSE @]]

GetFilesByType(ing, file_type) ==
    SelectSeq(ing.files, LAMBDA f : f.file_type = file_type)

GetPythonFiles(ing) == GetFilesByType(ing, "PYTHON")

(***************************************************************************)
(* pathlib.Path on absolute POSIX paths.                                   *)
(***************************************************************************)
PathParts(path) == Split(path, "/")

PathName(path) == SubSeq(path, LastIndexOf(path, "/") + 1, Len(path))

\* the names of path.parents
ParentNames(path) ==
    LET parts == PathParts(path) IN {parts[i] : i \in 1..(Len(parts) - 1)}

PathParent(path) ==
    IF LastIndexOf(path, "/") <= 1 THEN "/" ELSE SubSeq(path, 1, LastIndexOf(path, "/") - 1)

PathSuffix(path) ==
    LET name == PathName(path)
        i == LastIndexOf(name, ".")
    IN IF 1 < i /\ i < Len(name) THEN SubSeq(name, i, Len(name)) ELSE ""

PathStem(path) ==
    LET name == PathName(path)
        i == LastIndexOf(name, ".")
    IN IF 1 < i /\ i < Len(name) THEN SubSeq(name, 1, i - 1) ELSE name

IsRelativeTo(path, root) ==
    \/ path = root
    \/ root = "/" /\ StartsWith(path, "/")
    \/ StartsWith(path, root \o "/")

\* path.relative_to(root), for a path that is relative to root
RelativeTo(path, root) ==
    IF path = root THEN "."
    ELSE IF root = "/" THEN Tail(path)
    ELSE SubSeq(path, Len(root) + 2, Len(path))

(***************************************************************************)
(* The file system the scanner reads: every path is absent, a directory or *)
(* a regular file with a size, an encoding, an access outcome and a text.  *)
(***************************************************************************)
MaxFileSizeMb == 10

MaxFileSizeBytes == MaxFileSizeMb * 1024 * 1024

ProjectDir == "/proj"

\* the paths below ProjectDir, in the order the directory walk yields them
ScanPaths == <<"/proj/main.py", "/proj/src/app.js", "/proj/LICENSE", "/proj/.git/config">>

AllPaths == Range(ScanPaths) \cup {ProjectDir}

\* A node holds bytes; the model keeps what the two decoders make of them:
\* utf8 says whether the bytes decode as UTF-8, content is that decoding and
\* latin1 is the Latin-1 decoding (which never fails).
NodeAbsent ==
    [kind |-> "absent", size |-> 0, utf8 |-> TRUE, perm |-> "ok", content |-> "",
     latin1 |-> ""]
NodeDir ==
    [kind |-> "dir", size |-> 4096, utf8 |-> TRUE, perm |-> "ok", content |-> "",
     latin1 |-> ""]

NodeFileBytes(size, utf8, perm, content, latin1) ==
    [kind |-> "file", size |-> size, utf8 |-> utf8, perm |-> perm, content |-> content,
     latin1 |-> latin1]

\* a file whose text reads the same under either decoder
NodeFile(size, utf8, perm, content) == NodeFileBytes(size, utf8, perm, content, content)

\* a symbolic link that points to itself
NodeSymlinkLoop ==
    [kind |-> "symlink_loop", size |-> 0, utf8 |-> TRUE, perm |-> "ok", content |-> "",
     latin1 |-> ""]

\* a path the file system does not mention does not exist
NodeAt(path) == IF path \in DOMAIN fs THEN fs[path] ELSE NodeAbsent

Exists(path) == NodeAt(path).kind # "absent"
IsFile(path) == NodeAt(path).kind = "file"
IsDir(path) == NodeAt(path).kind = "dir"

\* Path(p).resolve() raises RuntimeError("Symlink loop from ...") on a link
\* that leads back to itself (pathlib of Python 3.11)
ResolveRaises(path) == NodeAt(path).kind = "symlink_loop"

(***************************************************************************)
(* ingest/file_parser.py                                                   *)
(***************************************************************************)
DefaultIgnorePatterns ==
    {"__pycache__", ".git", ".svn", ".hg", "node_modules",
     ".venv", "venv", "env", ".env", "dist", "build",
     ".pytest_cache", ".mypy_cache", ".tox", "htmlcov",
     "coverage", ".coverage", "eggs", ".eggs",
     ".pyc", ".pyo", ".pyd", ".so", ".dll", ".dylib",
     ".egg", ".egg-info", ".dist-info",
     ".idea", ".vscode", ".vs", "*.swp", "*.swo",
     ".DS_Store", "Thumbs.db", "desktop.ini"}

ExtensionMap ==
    <<<<".py", "PYTHON">>, <<".js", "JAVASCRIPT">>, <<".jsx", "JAVASCRIPT">>,
      <<".ts", "TYPESCRIPT">>, <<".tsx", "TYPESCRIPT">>, <<".java", "JAVA">>,
      <<".go", "GO">>>>

\* A should_ignore that looks at the final component only.
ShouldIgnoreNameOnly(path) ==
    LET name == PathName(path) IN
    \/ name \in DefaultIgnorePatterns
    \/ StartsWith(name, ".") /\ name \notin {".env.example", ".gitignore"}

ShouldIgnore(path) ==
    LET name == PathName(path) IN
    \/ name \in DefaultIgnorePatterns
    \/ \E parent \in ParentNames(path) : parent \in DefaultIgnorePatterns
    \/ \E pattern \in DefaultIgnorePatterns :
          StartsWith(pattern, "*") /\ EndsWith(path, pattern)
    \/ StartsWith(name, ".") /\ name \notin {".env.example", ".gitignore"}

DetectFileType(path) == DictGet(ExtensionMap, Lower(PathSuffix(path)), "UNKNOWN")

\* mimetypes.guess_type(path) names a text/ type (the extensions the model uses)
MimeIsText(path) == Lower(PathSuffix(path)) \in {".txt", ".md", ".csv", ".html", ".py"}

CountLines(content) ==
    Len(SelectSeq(Split(content, "\n"), LAMBDA line : ~IsBlank(line)))

\* "True", "False", or "raise" when open() fails with an OSError that is
\* neither UnicodeDecodeError nor PermissionError
IsTextFile(path) ==
    IF DetectFileType(path) # "UNKNOWN" THEN "True"
    ELSE IF MimeIsText(path) THEN "True"
    ELSE IF fs[path].perm = "ioerror" THEN "raise"
    ELSE IF fs[path].perm = "denied" THEN "False"
    ELSE IF fs[path].utf8 THEN "True" ELSE "False"

\* the text, or "None"
\* A read_file_safe that opens every file as Latin-1.
ReadFileSafeLatin1Only(path) ==
    IF NodeAt(path).kind = "absent" THEN "None"
    ELSE IF NodeAt(path).size > MaxFileSizeBytes THEN "None"
    ELSE IF NodeAt(path).kind = "file" /\ NodeAt(path).perm = "ok" THEN NodeAt(path).latin1
    ELSE "None"

ReadFileSafe(path) ==
    IF NodeAt(path).kind = "absent" THEN "None"                \* stat() raises OSError
    ELSE IF NodeAt(path).size > MaxFileSizeBytes THEN "None"
    ELSE IF NodeAt(path).kind # "file" THEN "None"             \* IsADirectoryError, twice
    ELSE IF NodeAt(path).perm # "ok" THEN "None"               \* both open() calls raise
    ELSE IF NodeAt(path).utf8 THEN NodeAt(path).content
    ELSE NodeAt(path).latin1                                    \* UnicodeDecodeError

NoFile == [tag |-> "None"]
Raised(error) == [tag |-> "raise", error |-> error]

ParseFile(path, root_path) ==
    IF ShouldIgnore(path) THEN NoFile
    ELSE IF ~IsFile(path) THEN NoFile
    ELSE IF DetectFileType(path) = "UNKNOWN" /\ IsTextFile(path) = "raise"
         THEN Raised("OSError")
    ELSE IF DetectFileType(path) = "UNKNOWN" /\ IsTextFile(path) = "False" THEN NoFile
    ELSE IF fs[path].size > MaxFileSizeBytes THEN NoFile
    ELSE IF ReadFileSafe(path) = "None" THEN NoFile
    ELSE [tag |-> "FileInfo",
          info |-> [path |-> path,
                    relative_path |-> IF IsRelativeTo(path, root_path)
                                     THEN RelativeTo(path, root_path) ELSE path,
                    file_type |-> DetectFileType(path),
                    size_bytes |-> fs[path].size,
                    lines_of_code |-> CountLines(ReadFileSafe(path)),
                    content |-> ReadFileSafe(path)]]

(***************************************************************************)
(* ingest/local_scanner.py                                                 *)
(***************************************************************************)
Returned(ing) == [tag |-> "return", ingestion |-> ing]

\* max(languages.items(), key=lambda x: x[1])[0]: the first entry with the largest count
PrimaryLanguage(languages) ==
    languages[CHOOSE i \in DOMAIN languages :
                 /\ \A j \in DOMAIN languages : languages[j][2] <= languages[i][2]
                 /\ \A j \in 1..(i - 1) : languages[j][2] < languages[i][2]][1]

SetPrimaryLanguage(ing) ==
    IF ing.metadata.languages # <<>>
    THEN [ing EXCEPT !.metadata.primary_language = PrimaryLanguage(ing.metadata.languages)]
    ELSE ing

\* the loop body of scan_directory for one regular file
ScanDirectoryEntry(ing, path, root) ==
    LET parsed == ParseFile(path, root) IN
    IF parsed.tag = "FileInfo" THEN AddFile(ing, parsed.info)
    ELSE IF parsed.tag = "None" THEN ing
    ELSE [ing EXCEPT !.errors = Append(@, "Error processing")]

RECURSIVE ScanDirectoryLoop(_, _, _)
ScanDirectoryLoop(ing, paths, root) ==
    IF paths = <<>> THEN ing
    ELSE IF ~IsFile(Head(paths)) THEN ScanDirectoryLoop(ing, Tail(paths), root)
    ELSE ScanDirectoryLoop(ScanDirectoryEntry(ing, Head(paths), root), Tail(paths), root)

\* dir_path.rglob('*') or dir_path.glob('*'), without the directories between
FilesToScan(dir_path, recursive) ==
    SelectSeq(ScanPaths,
              LAMBDA p : /\ Exists(p)
                         /\ IF recursive THEN StartsWith(p, dir_path \o "/")
                                         ELSE PathParent(p) = dir_path)

ScanDirectory(dir_path, recursive, structureFails) ==
    IF ~Exists(dir_path) THEN Raised("FileNotFoundError")
    ELSE IF ~IsDir(dir_path) THEN Raised("NotADirectoryError")
    ELSE LET created == NewIngestion(NewMetadata("LOCAL_FOLDER", dir_path))
             start == IF structureFails
                      THEN [created EXCEPT
                              !.warnings = Append(@, "Could not build directory structure")]
                      ELSE created
         IN Returned(SetPrimaryLanguage(
                ScanDirectoryLoop(start, FilesToScan(dir_path, recursive), dir_path)))

ScanFile(path) ==
    IF ~Exists(path) THEN Raised("FileNotFoundError")
    ELSE IF ~IsFile(path) THEN Raised("IsADirectoryError")
    ELSE LET created == NewIngestion(NewMetadata("LOCAL_FILE", path))
             parsed == ParseFile(path, PathParent(path))
         IN Returned(
              IF parsed.tag = "FileInfo"
              THEN [AddFile(created, parsed.info) EXCEPT
                      !.metadata.primary_language = parsed.info.file_type]
              ELSE IF parsed.tag = "None"
              THEN [created EXCEPT !.warnings = Append(@, "File was skipped")]
              ELSE [created EXCEPT !.errors = Append(@, "Error processing file")])

\* list(reversed(p.parents)) + [p]
RECURSIVE ParentSequence(_)
ParentSequence(path) ==
    IF path = "/" THEN <<"/">> ELSE Append(ParentSequence(PathParent(path)), path)

RECURSIVE ParentSequences(_)
ParentSequences(paths) ==
    IF paths = <<>> THEN <<>>
    ELSE <<ParentSequence(Head(paths))>> \o ParentSequences(Tail(paths))

\* the deepest path every parent sequence starts with, or "None"
FindCommonRoot(paths) ==
    IF paths = <<>> THEN "None"
    ELSE IF Len(paths) = 1 THEN PathParent(paths[1])
    ELSE LET seqs == ParentSequences(paths)
             agree(k) == \A i \in DOMAIN seqs :
                            Len(seqs[i]) >= k /\ seqs[i][k] = seqs[1][k]
             common == {k \in 1..Len(seqs[1]) : \A j \in 1..k : agree(j)}
         IN IF common = {} THEN "None"
            ELSE seqs[1][CHOOSE k \in common : \A j \in common : j <= k]

MaxPaths == 2

ScanFilesEntry(ing, path, common_root) ==
    IF ~Exists(path) THEN [ing EXCEPT !.warnings = Append(@, "File not found")]
    ELSE IF ~IsFile(path) THEN [ing EXCEPT !.warnings = Append(@, "Not a file")]
    ELSE LET root == IF common_root # "None" THEN common_root ELSE PathParent(path)
             parsed == ParseFile(path, root)
         IN IF parsed.tag = "FileInfo" THEN AddFile(ing, parsed.info)
            ELSE IF parsed.tag = "None"
            THEN [ing EXCEPT !.warnings = Append(@, "File was skipped")]
            ELSE [ing EXCEPT !.errors = Append(@, "Error processing")]

RECURSIVE ScanFilesLoop(_, _, _)
ScanFilesLoop(ing, paths, common_root) ==
    IF paths = <<>> THEN ing
    ELSE ScanFilesLoop(ScanFilesEntry(ing, Head(paths), common_root),
                       Tail(paths), common_root)

\* paths = [Path(p).resolve() for p in file_paths] stands before the loop and
\* outside its try
ScanFiles(file_paths) ==
    IF file_paths = <<>> THEN Raised("ValueError")
    ELSE IF \E i \in DOMAIN file_paths : ResolveRaises(file_paths[i])
    THEN Raised("RuntimeError")
    ELSE LET common_root == FindCommonRoot(file_paths)
             created == NewIngestion(NewMetadata("LOCAL_FILE",
                            IF common_root # "None" THEN common_root ELSE "multiple_files"))
         IN Returned(SetPrimaryLanguage(ScanFilesLoop(created, file_paths, common_root)))

(***************************************************************************)
(* The file systems the scanner is run on, and the scanner's calls.        *)
(***************************************************************************)
SmallFileBytes == 1024
OverCap == 11 * 1024 * 1024

FileVariants(content) ==
    {NodeFile(SmallFileBytes, TRUE, "ok", content),       \* a readable UTF-8 file
     NodeFile(OverCap, TRUE, "ok", content),         \* a file over the size cap
     NodeFile(SmallFileBytes, FALSE, "ok", content),      \* bytes that are not UTF-8
     NodeFile(SmallFileBytes, TRUE, "denied", content),   \* open() raises PermissionError
     NodeFile(SmallFileBytes, TRUE, "ioerror", content)}  \* open() raises another OSError

FileSystems ==
    {[p \in Range(ScanPaths) \cup {ProjectDir} |->
         CASE p = ProjectDir -> NodeDir
           [] p = "/proj/main.py" -> a
           [] p = "/proj/src/app.js" -> b
           [] p = "/proj/LICENSE" -> c
           [] OTHER -> d] :
        a \in FileVariants("import os\n\nx = 1\n") \cup {NodeAbsent, NodeDir},
        b \in {NodeAbsent, NodeFile(SmallFileBytes, TRUE, "ok", "let a = 1;\n"),
               NodeFile(SmallFileBytes, FALSE, "ok", "let a = 1;\n")},
        c \in FileVariants("MIT\n  \nLicense\ntext") \cup {NodeAbsent, NodeDir},
        d \in {NodeAbsent, NodeFile(SmallFileBytes, TRUE, "ok", "[core]\n")}}

NotCalled == [op |-> "none"]

\* LocalScanner keeps no state between calls and every call builds a fresh
\* CodebaseIngestion, so a behaviour is one call on one file system.
NotScanned == [op |-> "none"]

scan_directory(directory_path, recursive, structureFails) ==
    /\ scanned = NotScanned
    /\ scanned' = [op |-> "scan_directory", paths |-> <<directory_path>>,
                   recursive |-> recursive,
                   outcome |-> ScanDirectory(directory_path, recursive, structureFails)]
    /\ UNCHANGED <<fs, ingestionVars, loaderVars, analyzerVars>>

scan_file(file_path) ==
    /\ scanned = NotScanned
    /\ scanned' = [op |-> "scan_file", paths |-> <<file_path>>, recursive |-> FALSE,
                   outcome |-> ScanFile(file_path)]
    /\ UNCHANGED <<fs, ingestionVars, loaderVars, analyzerVars>>

scan_files(file_paths) ==
    /\ scanned = NotScanned
    /\ scanned' = [op |-> "scan_files", paths |-> file_paths, recursive |-> FALSE,
                   outcome |-> ScanFiles(file_paths)]
    /\ UNCHANGED <<fs, ingestionVars, loaderVars, analyzerVars>>

NextScan ==
    \/ \E d \in {ProjectDir, "/proj/main.py"}, r \in BOOLEAN, f \in BOOLEAN :
          scan_directory(d, r, f)
    \/ \E p \in Range(ScanPaths) : scan_file(p)
    \/ \E ps \in SeqsUpTo(Range(ScanPaths), MaxPaths) : scan_files(ps)

\* an empty project directory
EmptyProject ==
    [p \in Range(ScanPaths) \cup {ProjectDir} |->
        IF p = ProjectDir THEN NodeDir ELSE NodeAbsent]

(***************************************************************************)
(* The FileInfo records handed to add_file.                                *)
(***************************************************************************)
AddablePaths == {"/proj/a.py", "/proj/b.js"}

AddableFiles ==
    {[path |-> p, relative_path |-> PathName(p), file_type |-> t, size_bytes |-> 1024,
      lines_of_code |-> n, content |-> "text"] :
        p \in AddablePaths, t \in {"PYTHON", "JAVASCRIPT", "UNKNOWN"}, n \in 0..MaxLoc}

EmptyIngestion == NewIngestion(NewMetadata("LOCAL_FOLDER", ProjectDir))

InitAddFile ==
    /\ ingestion = EmptyIngestion
    /\ addCalls = <<>>
    /\ fs = EmptyProject
    /\ scanned = NotScanned
    /\ cloneDirs = {}
    /\ mkdtemps = 0
    /\ lastCall = NotCalled
    /\ class_extractor = NewClassExtractor
    /\ function_analyzer = NewFunctionAnalyzer
    /\ dependency_mapper = NewDependencyMapper
    /\ lastBuilt = NeverBuilt
    /\ analysis = NotAnalyzed
    /\ held = NothingHeld

add_file(file_info) ==
    /\ Len(addCalls) < MaxAdds
    /\ ingestion' = AddFile(ingestion, file_info)
    /\ addCalls' = Append(addCalls, file_info)
    /\ UNCHANGED <<scanVars, loaderVars, analyzerVars>>

NextAddFile == \E f \in AddableFiles : add_file(f)

SpecAddFile == InitAddFile /\ [][NextAddFile]_vars

(***************************************************************************)
(* C1: after every add_file call on an ingestion that started empty,       *)
(* total_files is the number of calls, total_lines is the sum of the       *)
(* added files' lines_of_code, files holds the added files in call order,  *)
(* and the language histogram's counts sum to the number of added files    *)
(* whose type is not UNKNOWN.                                              *)
(***************************************************************************)
C1_AddFileCounts ==
    /\ ingestion.metadata.total_files = Len(addCalls)
    /\ ingestion.metadata.total_lines =
         SeqSum([i \in DOMAIN addCalls |-> addCalls[i].lines_of_code])
    /\ ingestion.files = addCalls
    /\ SeqSum(DictValues(ingestion.metadata.languages)) =
         Cardinality({i \in DOMAIN addCalls : addCalls[i].file_type # "UNKNOWN"})

C1_Witness ==
    /\ Len(addCalls) = MaxAdds
    /\ \E i \in DOMAIN addCalls : addCalls[i].file_type = "UNKNOWN"
    /\ \E i, j \in DOMAIN addCalls :
          i # j /\ addCalls[i].file_type = "PYTHON" /\ addCalls[j].file_type = "PYTHON"
    /\ ingestion.metadata.total_lines > 2

InitScan ==
    /\ ingestion = EmptyIngestion
    /\ addCalls = <<>>
    /\ fs \in FileSystems
    /\ scanned = NotScanned
    /\ cloneDirs = {}
    /\ mkdtemps = 0
    /\ lastCall = NotCalled
    /\ class_extractor = NewClassExtractor
    /\ function_analyzer = NewFunctionAnalyzer
    /\ dependency_mapper = NewDependencyMapper
    /\ lastBuilt = NeverBuilt
    /\ analysis = NotAnalyzed
    /\ held = NothingHeld

SpecScan == InitScan /\ [][NextScan]_vars

(***************************************************************************)
(* C5: in scan_directory, scan_file and scan_files, every regular file for *)
(* which parse_file returns None adds one warning to the ingestion's       *)
(* warning list, is not added to files and is not recorded as an error.    *)
(***************************************************************************)
\* the regular files the last call handed to parse_file, in order
VisitedFiles ==
    IF scanned.op = "scan_directory"
    THEN SelectSeq(FilesToScan(scanned.paths[1], scanned.recursive), IsFile)
    ELSE SelectSeq(scanned.paths, IsFile)

ParseOutcome(path) == ParseFile(path, "/").tag

CountOf(s, x) == Cardinality({i \in DOMAIN s : s[i] = x})

C5_SkippedFilesWarn ==
    (scanned.op # "none" /\ scanned.outcome.tag = "return") =>
        LET ing == scanned.outcome.ingestion
            skipped == {i \in DOMAIN VisitedFiles : ParseOutcome(VisitedFiles[i]) = "None"}
            raised == {i \in DOMAIN VisitedFiles : ParseOutcome(VisitedFiles[i]) = "raise"}
        IN /\ CountOf(ing.warnings, "File was skipped") = Cardinality(skipped)
           /\ \A i \in skipped : \A k \in DOMAIN ing.files :
                  ing.files[k].path # VisitedFiles[i]
           /\ Len(ing.errors) = Cardinality(raised)

\* the same statement for scan_file and scan_files alone
C5_SkippedFilesWarnOutsideDirectoryScan ==
    scanned.op \in {"scan_file", "scan_files"} => C5_SkippedFilesWarn

(***************************************************************************)
(* ingest/github_loader.py                                                 *)
(***************************************************************************)
WordChars == LowerChars \o UpperChars \o "0123456789_"

\* [\w-] and [\w.-]
OwnerChars == CharsOf(WordChars) \cup {"-"}
RepoChars == CharsOf(WordChars) \cup {"-", "."}

IsOwnerChar(c) == c \in OwnerChars
IsRepoChar(c) == c \in RepoChars

\* the end of the longest run of owner (repo) characters that starts at i; i - 1 if none
RECURSIVE OwnerRunEnd(_, _)
OwnerRunEnd(s, i) ==
    IF i <= Len(s) /\ IsOwnerChar(SubSeq(s, i, i)) THEN OwnerRunEnd(s, i + 1) ELSE i - 1

RECURSIVE RepoRunEnd(_, _)
RepoRunEnd(s, i) ==
    IF i <= Len(s) /\ IsRepoChar(SubSeq(s, i, i)) THEN RepoRunEnd(s, i + 1) ELSE i - 1

\* [\w-]+/[\w.-]+ matches at position i
MatchesOwnerRepoAt(s, i) ==
    LET e == OwnerRunEnd(s, i) IN
    /\ e >= i
    /\ CharAt(s, e + 1) = "/"
    /\ RepoRunEnd(s, e + 2) >= e + 2

\* [\w-]+/[\w.-]+\.git matches at position i
MatchesOwnerRepoGitAt(s, i) ==
    LET e == OwnerRunEnd(s, i)
        r == RepoRunEnd(s, e + 2)
    IN /\ e >= i
       /\ CharAt(s, e + 1) = "/"
       /\ \E k \in (e + 3)..(r - 3) : SubSeq(s, k, k + 3) = ".git"

IsGithubUrl(url) ==
    \/ StartsWith(url, "https://github.com/") /\ MatchesOwnerRepoAt(url, 20)
    \/ StartsWith(url, "http://github.com/") /\ MatchesOwnerRepoAt(url, 19)
    \/ StartsWith(url, "git@github.com:") /\ MatchesOwnerRepoGitAt(url, 16)
    \/ StartsWith(url, "github.com/") /\ MatchesOwnerRepoAt(url, 12)

\* url.rstrip('.git'): strips every trailing character that is one of . g i t
RECURSIVE RStripDotGit(_)
RStripDotGit(url) ==
    IF url # "" /\ CharAt(url, Len(url)) \in {".", "g", "i", "t"}
    THEN RStripDotGit(SubSeq(url, 1, Len(url) - 1))
    ELSE url

\* s.replace(old, new)
RECURSIVE Replace(_, _, _)
Replace(s, old, new) ==
    IF Len(s) < Len(old) THEN s
    ELSE IF StartsWith(s, old)
    THEN new \o Replace(SubSeq(s, Len(old) + 1, Len(s)), old, new)
    ELSE SubSeq(s, 1, 1) \o Replace(SubSeq(s, 2, Len(s)), old, new)

NormalizeGithubUrl(url) ==
    LET stripped == RStripDotGit(url)
        https == IF StartsWith(stripped, "git@github.com:")
                 THEN Replace(stripped, "git@github.com:", "https://github.com/")
                 ELSE stripped
    IN IF ~StartsWith(https, "http") THEN "https://" \o LStrip(https, "/") ELSE https

\* the first position where github\.com/([\w-]+)/([\w.-]+) matches, or 0
FirstRepoMatch(s) ==
    LET hits == {i \in 1..Len(s) :
                    /\ i + 10 <= Len(s)
                    /\ SubSeq(s, i, i + 10) = "github.com/"
                    /\ MatchesOwnerRepoAt(s, i + 11)}
    IN IF hits = {} THEN 0 ELSE CHOOSE i \in hits : \A j \in hits : i <= j

ExtractRepoInfo(url) ==
    LET normalized == NormalizeGithubUrl(url)
        at == FirstRepoMatch(normalized)
        ownerEnd == OwnerRunEnd(normalized, at + 11)
        repoEnd == RepoRunEnd(normalized, ownerEnd + 2)
    IN IF at = 0 THEN Raised("ValueError")
       ELSE [tag |-> "return",
             owner |-> SubSeq(normalized, at + 11, ownerEnd),
             repo |-> SubSeq(normalized, ownerEnd + 2, repoEnd),
             full_name |-> SubSeq(normalized, at + 11, repoEnd),
             url |-> normalized]


\* tempfile.mkdtemp(prefix='codemap_clone_'): a name no earlier call was given
TempName(n) == "/tmp/codemap_clone_" \o ToString(n)

\* What the world outside the program does during one call: whether the git
\* client is installed, how git clone ends, whether the git queries of
\* get_git_info succeed, whether the scan of the clone raises, and whether
\* shutil.rmtree succeeds.
Environment(git_installed, clone, git_info, scan, rmtree) ==
    [git_installed |-> git_installed, clone |-> clone, git_info |-> git_info,
     scan |-> scan, rmtree |-> rmtree]

\* the disk during a call: the clone directories that exist and the number of
\* temporary directories made so far
Disk(dirs, temps) == [dirs |-> dirs, temps |-> temps]

IsGitInstalled(env) == env.git_installed

CloneRepository(repo_url, target_dir, env, disk) ==
    IF ~IsGithubUrl(repo_url)
    THEN [error |-> "ValueError", path |-> "unbound", disk |-> disk, log |-> <<>>]
    ELSE LET temp == target_dir = "None"
             target == IF temp THEN TempName(disk.temps + 1) ELSE target_dir
             made == Disk(disk.dirs \cup {target},
                          IF temp THEN disk.temps + 1 ELSE disk.temps)
             log == <<IF temp THEN "mkdtemp" ELSE "mkdir", "git clone">>
             error == IF ~env.git_installed THEN "FileNotFoundError"
                      ELSE IF env.clone = "TimeoutExpired" THEN "TimeoutError"
                      ELSE IF env.clone = "CalledProcessError" THEN "RuntimeError"
                      ELSE "None"
         IN [error |-> error,
             path |-> IF error = "None" THEN target ELSE "unbound",
             disk |-> made, log |-> log]

\* the dictionary get_git_info returns: empty when the git queries fail
GetGitInfo(env) ==
    IF env.git_info = "ok" THEN <<"branch", "commit", "remote", "last_commit_date">> ELSE <<>>

\* the try block of load_repository once clone_repository has ended.  A clone
\* holds the repository's files; the scan of the clone is taken here over a
\* working tree with no file the classifier accepts.
LoadRepositoryBody(repo_info, clone, env) ==
    IF clone.error # "None" THEN Raised(clone.error)
    ELSE IF env.scan # "ok" THEN Raised("PermissionError")
    ELSE [tag |-> "return",
          ingestion |-> NewIngestion(NewMetadata("GITHUB", repo_info.url)),
          git_info |-> GetGitInfo(env),
          repository_info |-> repo_info]

\* the finally block of load_repository tries to remove the clone.  clone_path
\* is unbound when clone_repository raised: the lookup raises inside the try
\* of the finally block and is caught there.
TriesToRemove(temp_clone, keep_clone, clone_dir, clone) ==
    /\ temp_clone /\ ~keep_clone /\ clone_dir = "None"
    /\ clone.path # "unbound"
    /\ clone.path \in clone.disk.dirs

LoadRepositoryFinally(removes, clone, env) ==
    IF removes /\ env.rmtree = "ok"
    THEN Disk(clone.disk.dirs \ {clone.path}, clone.disk.temps)
    ELSE clone.disk

LoadRepositoryCloned(repo_info, clone, removes, env) ==
    [outcome |-> LoadRepositoryBody(repo_info, clone, env),
     disk |-> LoadRepositoryFinally(removes, clone, env),
     log |-> <<"extract_repo_info", "clone_repository">> \o clone.log
             \o (IF clone.error = "None" THEN <<"get_git_info", "scan_directory">> ELSE <<>>)
             \o (IF removes THEN <<"rmtree">> ELSE <<>>)]

LoadRepositoryWith(repo_info, clone, keep_clone, clone_dir, env) ==
    LoadRepositoryCloned(repo_info, clone,
                         TriesToRemove(clone_dir = "None", keep_clone, clone_dir, clone), env)

LoadRepositoryFrom(repo_info, repo_url, keep_clone, clone_dir, env, disk) ==
    IF repo_info.tag = "raise"
    THEN [outcome |-> repo_info, disk |-> disk, log |-> <<"extract_repo_info">>]
    ELSE LoadRepositoryWith(repo_info, CloneRepository(repo_url, clone_dir, env, disk),
                            keep_clone, clone_dir, env)

LoadRepository(repo_url, keep_clone, clone_dir, env, disk) ==
    LoadRepositoryFrom(ExtractRepoInfo(repo_url), repo_url, keep_clone, clone_dir, env, disk)

(***************************************************************************)
(* ingest/ingestor.py                                                      *)
(***************************************************************************)
Logged(first, result, last) == [result EXCEPT !.log = first \o @ \o last]

IngestGithubLoadsFirst(repo_url, keep_clone, clone_dir, env, disk) ==
    IF ~IsGitInstalled(env)
    THEN Logged(<<"load_repository">>,
                [LoadRepository(repo_url, keep_clone, clone_dir, env, disk)
                    EXCEPT !.outcome = Raised("RuntimeError")],
                <<"is_git_installed">>)
    ELSE Logged(<<"load_repository">>,
                LoadRepository(repo_url, keep_clone, clone_dir, env, disk),
                <<"is_git_installed">>)

IngestGithub(repo_url, keep_clone, clone_dir, env, disk) ==
    IF ~IsGitInstalled(env)
    THEN [outcome |-> Raised("RuntimeError"), disk |-> disk, log |-> <<"is_git_installed">>]
    ELSE Logged(<<"is_git_installed", "load_repository">>,
                LoadRepository(repo_url, keep_clone, clone_dir, env, disk), <<>>)

\* CodeIngestor._is_github_url
LooksLikeGithubUrl(source) ==
    \/ Contains(Lower(source), "github.com")
    \/ StartsWith(source, "git@github.com:")
    \/ IsGithubUrl(source)

\* what ingest is given: a list of paths, or one string
ListSource(paths) == [is_list |-> TRUE, text |-> "", paths |-> paths]
StrSource(text) == [is_list |-> FALSE, text |-> text, paths |-> <<>>]

\* the result of ingest: the ingest_* method the call was handed to ("none"
\* when it was handed to none), and what that method did
Routed(route, result) ==
    [route |-> route, outcome |-> result.outcome, disk |-> result.disk, log |-> result.log]

\* a scanner's outcome; the scanners leave the disk alone
Scanned(outcome, disk) == [outcome |-> outcome, disk |-> disk, log |-> <<>>]

\* except Exception as e: raise ValueError(...)
SurfacedAsValueError(result) ==
    [result EXCEPT !.outcome = IF @.tag = "raise" THEN Raised("ValueError") ELSE @]

\* ingest(source) with no keyword options
IngestCaseSensitive(source, env, disk) ==
    IF source.is_list
    THEN Routed("ingest_files", Scanned(ScanFiles(source.paths), disk))
    ELSE IF LooksLikeGithubUrl(source.text)
    THEN Routed("ingest_github", IngestGithub(source.text, FALSE, "None", env, disk))
    ELSE IF IsDir(source.text)
    THEN Routed("ingest_directory", Scanned(ScanDirectory(source.text, TRUE, FALSE), disk))
    ELSE IF IsFile(source.text)
    THEN Routed("ingest_file", Scanned(ScanFile(source.text), disk))
    ELSE IF Contains(source.text, "github")
    THEN Routed("ingest_github",
                SurfacedAsValueError(IngestGithub(source.text, FALSE, "None", env, disk)))
    ELSE Routed("none", Scanned(Raised("ValueError"), disk))

Ingest(source, env, disk) ==
    IF source.is_list
    THEN Routed("ingest_files", Scanned(ScanFiles(source.paths), disk))
    ELSE IF LooksLikeGithubUrl(source.text)
    THEN Routed("ingest_github", IngestGithub(source.text, FALSE, "None", env, disk))
    ELSE IF IsDir(source.text)
    THEN Routed("ingest_directory", Scanned(ScanDirectory(source.text, TRUE, FALSE), disk))
    ELSE IF IsFile(source.text)
    THEN Routed("ingest_file", Scanned(ScanFile(source.text), disk))
    ELSE IF Contains(Lower(source.text), "github")
    THEN Routed("ingest_github",
                SurfacedAsValueError(IngestGithub(source.text, FALSE, "None", env, disk)))
    ELSE Routed("none", Scanned(Raised("ValueError"), disk))

(***************************************************************************)
(* One call of the remote loader or of the orchestrator.  Neither keeps    *)
(* state between calls; what an earlier call leaves behind is on the disk, *)
(* and the call starts from a disk that earlier calls may have left.       *)
(***************************************************************************)
\* nothing cloned yet; a temporary clone the caller kept; a caller's clone directory
PriorDisks ==
    {Disk({}, 0), Disk({TempName(1)}, 1), Disk({"/clones/repo"}, 0)}

Environments ==
    {Environment(TRUE, "ok", "ok", "ok", "ok"),
     Environment(FALSE, "ok", "ok", "ok", "ok"),
     Environment(TRUE, "TimeoutExpired", "ok", "ok", "ok"),
     Environment(TRUE, "CalledProcessError", "ok", "ok", "ok"),
     Environment(TRUE, "ok", "fails", "ok", "ok"),
     Environment(TRUE, "ok", "ok", "raise", "ok"),
     Environment(TRUE, "ok", "ok", "ok", "raise"),
     Environment(TRUE, "ok", "ok", "raise", "raise")}

RepoUrls ==
    {"https://github.com/octocat/repo", "git@github.com:octocat/repo.git",
     "git@github.com:octocat/repo", "https://GitHub.com/octocat/repo",
     "/work/github-notes"}

CloneDirs == {"None", "/clones/repo"}

IngestSources ==
    {StrSource(t) : t \in RepoUrls \cup
        {"/proj", "/proj/main.py", "/proj/missing.py", "/work/github-tools",
         "/work/github.md", "/work/GitHub-notes"}}
    \cup {ListSource(ps) : ps \in {<<>>, <<"/proj/main.py">>,
                                   <<"https://github.com/octocat/repo">>}}

\* a project on disk, with or without a directory and a file named after github
IngestProject(named) ==
    [p \in AllPaths \cup {"/work/github-tools", "/work/github.md"} |->
        CASE p = ProjectDir -> NodeDir
          [] p = "/work/github-tools" -> IF named THEN NodeDir ELSE NodeAbsent
          [] p = "/work/github.md" ->
                IF named THEN NodeFile(SmallFileBytes, TRUE, "ok", "# notes\n") ELSE NodeAbsent
          [] p = "/proj/main.py" -> NodeFile(SmallFileBytes, TRUE, "ok", "import os\n")
          [] OTHER -> NodeAbsent]

Called(op, source, keep_clone, clone_dir, env, route, result) ==
    [op |-> op, source |-> source, keep_clone |-> keep_clone,
     clone_dir |-> clone_dir, env |-> env, route |-> route,
     outcome |-> result.outcome, log |-> result.log,
     before |-> Disk(cloneDirs, mkdtemps)]

load_repository(repo_url, keep_clone, clone_dir, env) ==
    /\ lastCall = NotCalled
    /\ \E result \in {LoadRepository(repo_url, keep_clone, clone_dir, env, Disk(cloneDirs, mkdtemps))} :
       /\ cloneDirs' = result.disk.dirs
       /\ mkdtemps' = result.disk.temps
       /\ lastCall' = Called("load_repository", StrSource(repo_url), keep_clone,
                             clone_dir, env, "load_repository", result)
       /\ UNCHANGED <<ingestionVars, scanVars, analyzerVars>>

ingest_github(repo_url, keep_clone, clone_dir, env) ==
    /\ lastCall = NotCalled
    /\ \E result \in {IngestGithub(repo_url, keep_clone, clone_dir, env, Disk(cloneDirs, mkdtemps))} :
       /\ cloneDirs' = result.disk.dirs
       /\ mkdtemps' = result.disk.temps
       /\ lastCall' = Called("ingest_github", StrSource(repo_url), keep_clone,
                             clone_dir, env, "ingest_github", result)
       /\ UNCHANGED <<ingestionVars, scanVars, analyzerVars>>

ingest(source, env) ==
    /\ lastCall = NotCalled
    /\ \E result \in {Ingest(source, env, Disk(cloneDirs, mkdtemps))} :
       /\ cloneDirs' = result.disk.dirs
       /\ mkdtemps' = result.disk.temps
       /\ lastCall' = Called("ingest", source, FALSE, "None", env, result.route, result)
       /\ UNCHANGED <<ingestionVars, scanVars, analyzerVars>>

NextIngest ==
    \/ \E u \in RepoUrls, k \in BOOLEAN, d \in CloneDirs, e \in Environments :
          load_repository(u, k, d, e)
    \/ \E u \in RepoUrls, k \in BOOLEAN, d \in CloneDirs, e \in Environments :
          ingest_github(u, k, d, e)
    \/ \E s \in IngestSources, e \in Environments : ingest(s, e)

InitIngest ==
    /\ ingestion = EmptyIngestion
    /\ addCalls = <<>>
    /\ fs \in {IngestProject(TRUE), IngestProject(FALSE)}
    /\ scanned = NotScanned
    /\ \E disk \in PriorDisks : cloneDirs = disk.dirs /\ mkdtemps = disk.temps
    /\ lastCall = NotCalled
    /\ class_extractor = NewClassExtractor
    /\ function_analyzer = NewFunctionAnalyzer
    /\ dependency_mapper = NewDependencyMapper
    /\ lastBuilt = NeverBuilt
    /\ analysis = NotAnalyzed
    /\ held = NothingHeld

SpecIngest == InitIngest /\ [][NextIngest]_vars

\* the temporary directories made by the last call
MadeByLastCall == {TempName(k) : k \in (lastCall.before.temps + 1)..mkdtemps}

\* C2: after load_repository(url, keep_clone=false, clone_dir=absent), however
\* the call ended, no temporary clone directory made during the call still
\* exists (shutil.rmtree itself not failing).
C2_TempCloneDeleted ==
    (/\ lastCall.op = "load_repository"
     /\ ~lastCall.keep_clone
     /\ lastCall.clone_dir = "None"
     /\ lastCall.env.rmtree = "ok")
    => MadeByLastCall \cap cloneDirs = {}

\* the same, for the calls in which clone_repository returned
C2_TempCloneDeletedAfterClone ==
    (/\ lastCall.op = "load_repository"
     /\ ~lastCall.keep_clone
     /\ lastCall.clone_dir = "None"
     /\ lastCall.env.rmtree = "ok"
     /\ lastCall.env.git_installed
     /\ lastCall.env.clone = "ok")
    => MadeByLastCall \cap cloneDirs = {}

\* the route the rules give, "github" being looked for in the lower-cased text
RouteByRules(source) ==
    IF source.is_list THEN "ingest_files"
    ELSE IF LooksLikeGithubUrl(source.text) THEN "ingest_github"
    ELSE IF IsDir(source.text) THEN "ingest_directory"
    ELSE IF IsFile(source.text) THEN "ingest_file"
    ELSE IF Contains(Lower(source.text), "github") THEN "retry"
    ELSE "none"

\* the route the rules give, "github" being looked for in the text as written
RouteByRulesAsWritten(source) ==
    IF source.is_list THEN "ingest_files"
    ELSE IF LooksLikeGithubUrl(source.text) THEN "ingest_github"
    ELSE IF IsDir(source.text) THEN "ingest_directory"
    ELSE IF IsFile(source.text) THEN "ingest_file"
    ELSE IF Contains(source.text, "github") THEN "retry"
    ELSE "none"

\* the last call was ingest and it went the way the rule chosen for it says
RoutedBy(rule) ==
    /\ rule \in {"ingest_files", "ingest_github", "ingest_directory", "ingest_file"}
          => lastCall.route = rule
    /\ rule \in {"ingest_files", "ingest_directory", "ingest_file"}
          => /\ lastCall.log = <<>>
             /\ cloneDirs = lastCall.before.dirs
    /\ rule = "ingest_files" => lastCall.outcome = ScanFiles(lastCall.source.paths)
    /\ rule = "ingest_directory"
          => lastCall.outcome = ScanDirectory(lastCall.source.text, TRUE, FALSE)
    /\ rule = "ingest_file" => lastCall.outcome = ScanFile(lastCall.source.text)
    /\ rule \in {"ingest_github", "retry"}
          => lastCall.log # <<>> /\ Head(lastCall.log) = "is_git_installed"
    /\ rule = "retry"
          => /\ lastCall.route = "ingest_github"
             /\ lastCall.outcome.tag = "raise" => lastCall.outcome.error = "ValueError"
    /\ rule = "none"
          => /\ lastCall.route = "none"
             /\ lastCall.outcome = Raised("ValueError")
             /\ lastCall.log = <<>>
             /\ cloneDirs = lastCall.before.dirs
             /\ mkdtemps = lastCall.before.temps

\* C3: ingest(source) takes the one route of the first rule that matches: a
\* list goes to the multi-file scan; a string that looks like a GitHub URL to
\* the remote loader; an existing directory to the directory scan; an existing
\* file to the single-file scan; a nonexistent path whose text contains
\* "github" is retried through the remote loader with any failure surfaced as
\* ValueError; everything else fails with ValueError, nothing being invoked.
C3_IngestRoutes ==
    lastCall.op = "ingest" => RoutedBy(RouteByRulesAsWritten(lastCall.source))

\* C3 as the code has it: the retry rule looks for "github" in the lower-cased
\* text of the source.
C3_IngestRoutesLowerCased ==
    lastCall.op = "ingest" => RoutedBy(RouteByRules(lastCall.source))

C3_Witness ==
    /\ lastCall.op = "ingest"
    /\ lastCall.source = StrSource("/work/github-tools")
    /\ ~Exists("/work/github-tools")
    /\ lastCall.route = "ingest_github"
    /\ lastCall.outcome = Raised("ValueError")

\* C4: when git is not installed, ingest_github fails with the 'git is not
\* installed' RuntimeError before anything is delegated: no repository identity
\* is extracted, no clone is attempted and no temporary directory is made.
C4_GitMissingFailsFirst ==
    (lastCall.op = "ingest_github" /\ ~lastCall.env.git_installed)
    => /\ lastCall.outcome = Raised("RuntimeError")
       /\ lastCall.log = <<"is_git_installed">>
       /\ cloneDirs = lastCall.before.dirs
       /\ mkdtemps = lastCall.before.temps

C4_Witness ==
    /\ lastCall.op = "ingest_github"
    /\ ~lastCall.env.git_installed
    /\ IsGithubUrl(lastCall.source.text)
    /\ lastCall.outcome = Raised("RuntimeError")

(***************************************************************************)
(* analyzers/models.py                                                     *)
(***************************************************************************)
ImportInfo(module, names, is_from_import, line_number) ==
    [module |-> module, names |-> names, is_from_import |-> is_from_import,
     line_number |-> line_number]

\* FunctionInfo.__post_init__: the visibility field, PUBLIC by default
PostInitVisibility(name) ==
    IF StartsWith(name, "__") /\ ~EndsWith(name, "__") THEN "PRIVATE"
    ELSE IF StartsWith(name, "_") THEN "PROTECTED"
    ELSE "PUBLIC"

FunctionInfo(name, node_type, calls, line_number) ==
    [name |-> name, node_type |-> node_type, calls |-> calls, line_number |-> line_number,
     visibility |-> PostInitVisibility(name)]

ClassInfo(name, base_classes, methods, line_number) ==
    [name |-> name, base_classes |-> base_classes, methods |-> methods,
     line_number |-> line_number]

ModuleInfo(name, file_path, imports, classes, functions, total_lines) ==
    [tag |-> "ModuleInfo", name |-> name, file_path |-> file_path, imports |-> imports,
     classes |-> classes, functions |-> functions, total_lines |-> total_lines]

\* the concatenation of a sequence of sequences
RECURSIVE Flatten(_)
Flatten(ss) == IF ss = <<>> THEN <<>> ELSE Head(ss) \o Flatten(Tail(ss))

\* [f(s[1]), ..., f(s[n])], built eagerly
RECURSIVE MapSeq(_, _)
MapSeq(f(_), s) == IF s = <<>> THEN <<>> ELSE <<f(Head(s))>> \o MapSeq(f, Tail(s))

ClassMethods(cls) == cls.methods

\* ModuleInfo.get_all_functions
GetAllFunctions(module_info) ==
    module_info.functions \o Flatten(MapSeq(ClassMethods, module_info.classes))

NewAnalysisResult ==
    [modules |-> <<>>, call_graph |-> <<>>, dependencies |-> <<>>, all_classes |-> <<>>,
     all_functions |-> <<>>, errors |-> <<>>, warnings |-> <<>>]

(***************************************************************************)
(* ast.parse, on modules whose lines are each one of                       *)
(*     import a.b          from a.b import c       from .a import c        *)
(*     def f(): pass       def f(): g()                                    *)
(*     class C: pass       class C(B): pass        x = 1                   *)
(* or blank; any other line is a syntax error.                             *)
(***************************************************************************)
\* s.find(sub), one-based; 0 when sub does not occur
FindSub(s, sub) ==
    LET hits == {i \in 1..(Len(s) - Len(sub) + 1) : SubSeq(s, i, i + Len(sub) - 1) = sub}
    IN IF hits = {} THEN 0 ELSE CHOOSE i \in hits : \A j \in hits : i <= j

WordCharSet == CharsOf(WordChars)

IsIdentifier(s) ==
    /\ s # ""
    /\ \A i \in 1..Len(s) : SubSeq(s, i, i) \in WordCharSet
    /\ SubSeq(s, 1, 1) \notin CharsOf("0123456789")

IsDottedName(s) == \A part \in Range(Split(s, ".")) : IsIdentifier(part)

Statement(kind, name, module, bases, calls) ==
    [kind |-> kind, name |-> name, module |-> module, bases |-> bases, calls |-> calls]

SyntaxError == Statement("SyntaxError", "", "", <<>>, <<>>)

\* from <dots><module> import <name>: ast keeps the module without the dots
ParseFromImport(source, name) ==
    IF IsIdentifier(name) /\ (LStrip(source, ".") = "" => source # "")
                          /\ (LStrip(source, ".") # "" => IsDottedName(LStrip(source, ".")))
    THEN Statement("ImportFrom", name, LStrip(source, "."), <<>>, <<>>)
    ELSE SyntaxError

\* def <name>(): pass   or   def <name>(): <callee>()
ParseDef(name, body) ==
    IF ~IsIdentifier(name) THEN SyntaxError
    ELSE IF body = "pass" THEN Statement("FunctionDef", name, "", <<>>, <<>>)
    ELSE IF EndsWith(body, "()") /\ IsDottedName(SubSeq(body, 1, Len(body) - 2))
    THEN Statement("FunctionDef", name, "", <<>>, <<SubSeq(body, 1, Len(body) - 2)>>)
    ELSE SyntaxError

\* class <name>: pass   or   class <name>(<base>): pass
ParseClass(head) ==
    IF IsIdentifier(head) THEN Statement("ClassDef", head, "", <<>>, <<>>)
    ELSE IF /\ FindSub(head, "(") > 1
            /\ EndsWith(head, ")")
            /\ IsIdentifier(SubSeq(head, 1, FindSub(head, "(") - 1))
            /\ IsIdentifier(SubSeq(head, FindSub(head, "(") + 1, Len(head) - 1))
    THEN Statement("ClassDef", SubSeq(head, 1, FindSub(head, "(") - 1), "",
                   <<SubSeq(head, FindSub(head, "(") + 1, Len(head) - 1)>>, <<>>)
    ELSE SyntaxError

\* <name> = <digits>
ParseAssign(name, value) ==
    IF /\ IsIdentifier(name)
       /\ value # ""
       /\ \A i \in 1..Len(value) : SubSeq(value, i, i) \in CharsOf("0123456789")
    THEN Statement("Assign", name, "", <<>>, <<>>)
    ELSE SyntaxError

ParseStatement(line) ==
    IF IsBlank(line) THEN Statement("Blank", "", "", <<>>, <<>>)
    ELSE IF StartsWith(line, "import ")
    THEN IF IsDottedName(SubSeq(line, 8, Len(line)))
         THEN Statement("Import", SubSeq(line, 8, Len(line)), SubSeq(line, 8, Len(line)),
                        <<>>, <<>>)
         ELSE SyntaxError
    ELSE IF StartsWith(line, "from ") /\ FindSub(line, " import ") > 5
    THEN ParseFromImport(SubSeq(line, 6, FindSub(line, " import ") - 1),
                         SubSeq(line, FindSub(line, " import ") + 8, Len(line)))
    ELSE IF StartsWith(line, "def ") /\ FindSub(line, "(): ") > 4
    THEN ParseDef(SubSeq(line, 5, FindSub(line, "(): ") - 1),
                  SubSeq(line, FindSub(line, "(): ") + 4, Len(line)))
    ELSE IF StartsWith(line, "class ") /\ EndsWith(line, ": pass")
    THEN ParseClass(SubSeq(line, 7, Len(line) - 6))
    ELSE IF FindSub(line, " = ") > 1
    THEN ParseAssign(SubSeq(line, 1, FindSub(line, " = ") - 1),
                     SubSeq(line, FindSub(line, " = ") + 3, Len(line)))
    ELSE SyntaxError

\* the statements of the module with their line numbers, or a syntax error
RECURSIVE ParseLines(_, _)
ParseLines(lines, lineno) ==
    IF lineno > Len(lines) THEN <<>>
    ELSE <<ParseStatement(lines[lineno]) @@ [lineno |-> lineno]>>
         \o ParseLines(lines, lineno + 1)

AstParse(content) == ParseLines(Split(content, "\n"), 1)

HasSyntaxError(body) == \E i \in DOMAIN body : body[i].kind = "SyntaxError"

(***************************************************************************)
(* analyzers/ast_analyzer.py                                               *)
(***************************************************************************)
NoModule == [tag |-> "None"]

ExtractImport(node) ==
    IF node.kind = "Import"
    THEN ImportInfo(node.module, <<node.name>>, FALSE, node.lineno)
    ELSE ImportInfo(node.module, <<node.name>>, TRUE, node.lineno)

ExtractFunction(node, node_type) == FunctionInfo(node.name, node_type, node.calls, node.lineno)

ExtractTopLevelFunction(node) == ExtractFunction(node, "FUNCTION")

ExtractClass(node) == ClassInfo(node.name, node.bases, <<>>, node.lineno)

IsImportNode(node) == node.kind \in {"Import", "ImportFrom"}
IsClassDef(node) == node.kind = "ClassDef"
IsFunctionDef(node) == node.kind = "FunctionDef"

AnalyzeTree(file_path, content, tree) ==
    IF HasSyntaxError(tree) THEN NoModule
    ELSE ModuleInfo(PathStem(file_path), file_path,
                    MapSeq(ExtractImport, SelectSeq(tree, IsImportNode)),
                    MapSeq(ExtractClass, SelectSeq(tree, IsClassDef)),
                    MapSeq(ExtractTopLevelFunction, SelectSeq(tree, IsFunctionDef)),
                    Len(Split(content, "\n")))

\* ASTAnalyzer.analyze_file
AstAnalyzeFile(file_path, content) == AnalyzeTree(file_path, content, AstParse(content))

(***************************************************************************)
(* analyzers/dependency_mapper.py                                          *)
(***************************************************************************)
\* d[k].append(x), the list being made when k is new
DictAppend(d, k, x) == DictSet(d, k, Append(DictGet(d, k, <<>>), x))

DependencyEdge(source, target, import_type, names) ==
    [source |-> source, target |-> target, import_type |-> import_type, names |-> names]

ExtractBaseModule(module_path) ==
    IF module_path = "" THEN "" ELSE Head(Split(LStrip(module_path, "."), "."))

\* {Path(path).stem for path in analysis_result.modules.keys()}
ModuleNames(analysis_result) ==
    {PathStem(analysis_result.modules[i][1]) : i \in DOMAIN analysis_result.modules}

TrackImport(built, source_name, import_info, target_module) ==
    [edges |-> Append(built.edges,
                      DependencyEdge(source_name, target_module,
                                     IF import_info.is_from_import THEN "from_import"
                                                                   ELSE "import",
                                     import_info.names)),
     dependency_graph |-> DictAppend(built.dependency_graph, source_name, target_module),
     reverse_dependency_graph |->
         DictAppend(built.reverse_dependency_graph, target_module, source_name)]

RECURSIVE TrackImportsAsInternal(_, _, _, _)
TrackImportsAsInternal(built, source_name, imports, module_names) ==
    IF imports = <<>> THEN built
    ELSE TrackImportsAsInternal(
            TrackImport(built, source_name, Head(imports),
                        ExtractBaseModule(Head(imports).module)),
            source_name, Tail(imports), module_names)

RECURSIVE TrackImports(_, _, _, _)
TrackImports(built, source_name, imports, module_names) ==
    IF imports = <<>> THEN built
    ELSE TrackImports(
            IF ExtractBaseModule(Head(imports).module) \in module_names
            THEN TrackImport(built, source_name, Head(imports),
                             ExtractBaseModule(Head(imports).module))
            ELSE built,
            source_name, Tail(imports), module_names)

\* if source_name not in self.dependency_graph: self.dependency_graph[source_name] = []
WithSource(built, source_name) ==
    IF DictHas(built.dependency_graph, source_name) THEN built
    ELSE [built EXCEPT !.dependency_graph = Append(@, <<source_name, <<>>>>)]

RECURSIVE TrackModules(_, _, _)
TrackModules(built, modules, module_names) ==
    IF modules = <<>> THEN built
    ELSE TrackModules(
            TrackImports(WithSource(built, Head(modules)[2].name),
                         Head(modules)[2].name, Head(modules)[2].imports, module_names),
            Tail(modules), module_names)

\* The edges returned and the two maps left in the mapper (self), which are
\* cleared before anything is added.
BuildDependencyGraph(self, analysis_result) ==
    TrackModules([edges |-> <<>>, dependency_graph |-> <<>>,
                  reverse_dependency_graph |-> <<>>],
                 analysis_result.modules, ModuleNames(analysis_result))

\* the characters in code-point order
CodePointOrder ==
    "-./0123456789:@ABCDEFGHIJKLMNOPQRSTUVWXYZ_abcdefghijklmnopqrstuvwxyz"

CodePoint(c) == IndexOf(CodePointOrder, c)

\* s < t as Python compares strings
RECURSIVE StrLessFrom(_, _, _)
StrLessFrom(s, t, i) ==
    IF i > Len(t) THEN FALSE
    ELSE IF i > Len(s) THEN TRUE
    ELSE IF SubSeq(s, i, i) = SubSeq(t, i, i) THEN StrLessFrom(s, t, i + 1)
    ELSE CodePoint(SubSeq(s, i, i)) < CodePoint(SubSeq(t, i, i))

StrLess(s, t) == StrLessFrom(s, t, 1)

\* min(names)
MinStr(names) == CHOOSE m \in Range(names) : \A n \in Range(names) : ~StrLess(n, m)

\* s.index(x)
SeqIndex(s, x) == CHOOSE i \in DOMAIN s : s[i] = x /\ \A j \in 1..(i - 1) : s[j] # x

SeqHas(s, x) == \E i \in DOMAIN s : s[i] = x

\* cycle = path[path.index(module):] + [module]
CycleFound(path, module) == SubSeq(path, SeqIndex(path, module), Len(path)) \o <<module>>

\* cycle[min_idx:-1] + cycle[:min_idx] + [cycle[min_idx]], indices zero-based
RotatedAt(cycle, min_idx) ==
    SubSeq(cycle, min_idx + 1, Len(cycle) - 1) \o SubSeq(cycle, 1, min_idx)
        \o <<cycle[min_idx + 1]>>

Normalized(cycle) ==
    RotatedAt(cycle, SeqIndex(cycle, MinStr(SubSeq(cycle, 1, Len(cycle) - 1))) - 1)

RecordCycle(search, normalized) ==
    IF SeqHas(search.cycles, normalized) THEN search
    ELSE [search EXCEPT !.cycles = Append(@, normalized)]

\* dfs(module, path) and its loop over the dependencies of module; search
\* holds cycles, visited and rec_stack
RECURSIVE Dfs(_, _, _, _)
RECURSIVE DfsEach(_, _, _, _)
Dfs(graph, module, path, search) ==
    IF module \in search.rec_stack
    THEN RecordCycle(search, Normalized(CycleFound(path, module)))
    ELSE IF module \in search.visited THEN search
    ELSE [DfsEach(graph, DictGet(graph, module, <<>>), path,
                  [search EXCEPT !.visited = @ \cup {module},
                                 !.rec_stack = @ \cup {module}])
            EXCEPT !.rec_stack = @ \ {module}]

DfsEach(graph, dependencies, path, search) ==
    IF dependencies = <<>> THEN search
    ELSE DfsEach(graph, Tail(dependencies), path,
                 Dfs(graph, Head(dependencies), path \o <<Head(dependencies)>>, search))

RECURSIVE DfsFromEach(_, _, _)
DfsFromEach(graph, modules, search) ==
    IF modules = <<>> THEN search
    ELSE DfsFromEach(graph, Tail(modules),
                     IF Head(modules) \in search.visited THEN search
                     ELSE Dfs(graph, Head(modules), <<Head(modules)>>, search))

FindCircularDependencies(self) ==
    DfsFromEach(self.dependency_graph, DictKeys(self.dependency_graph),
                [cycles |-> <<>>, visited |-> {}, rec_stack |-> {}]).cycles

\* round(numerator / denominator, 3) in thousandths: the nearest thousandth,
\* a tie going to the even one
RoundThousandths(numerator, denominator) ==
    LET floor == (1000 * numerator) \div denominator
        twice == 2 * ((1000 * numerator) % denominator)
    IN IF twice > denominator \/ (twice = denominator /\ floor % 2 = 1)
       THEN floor + 1 ELSE floor

CouplingOfSwapped(self, module) ==
    LET efferent == Len(DictGet(self.reverse_dependency_graph, module, <<>>))
        afferent == Len(DictGet(self.dependency_graph, module, <<>>))
    IN [efferent_coupling |-> efferent,
        afferent_coupling |-> afferent,
        instability_thousandths |->
            IF efferent + afferent > 0
            THEN RoundThousandths(efferent, efferent + afferent) ELSE 0,
        total_coupling |-> efferent + afferent]

\* the metrics of one module; instability is kept in thousandths
CouplingOf(self, module) ==
    LET efferent == Len(DictGet(self.dependency_graph, module, <<>>))
        afferent == Len(DictGet(self.reverse_dependency_graph, module, <<>>))
    IN [efferent_coupling |-> efferent,
        afferent_coupling |-> afferent,
        instability_thousandths |->
            IF efferent + afferent > 0
            THEN RoundThousandths(efferent, efferent + afferent) ELSE 0,
        total_coupling |-> efferent + afferent]

\* the dictionary is built by iterating over a set, so it is kept here as a
\* function of the module name rather than in an order
CalculateCouplingMetrics(self) ==
    [module \in Range(DictKeys(self.dependency_graph))
                \cup Range(DictKeys(self.reverse_dependency_graph))
        |-> CouplingOf(self, module)]

\* external_deps[base_module] += 1 on a defaultdict(int)
Tally(external_deps, base_module) ==
    DictSet(external_deps, base_module, DictGet(external_deps, base_module, 0) + 1)

RECURSIVE TallyImports(_, _, _)
TallyImports(external_deps, imports, module_names) ==
    IF imports = <<>> THEN external_deps
    ELSE TallyImports(
            IF ExtractBaseModule(Head(imports).module) \notin module_names
            THEN Tally(external_deps, ExtractBaseModule(Head(imports).module))
            ELSE external_deps,
            Tail(imports), module_names)

RECURSIVE TallyModules(_, _, _)
TallyModules(external_deps, modules, module_names) ==
    IF modules = <<>> THEN external_deps
    ELSE TallyModules(TallyImports(external_deps, Head(modules)[2].imports, module_names),
                      Tail(modules), module_names)

AnalyzeExternalDependencies(analysis_result) ==
    TallyModules(<<>>, analysis_result.modules, ModuleNames(analysis_result))

(***************************************************************************)
(* analyzers/function_analyzer.py                                          *)
(***************************************************************************)
CallGraphEdge(caller, callee, line_number) ==
    [caller |-> caller, callee |-> callee, line_number |-> line_number]

\* f"{module.name}.{func.name}"
GetFullFunctionName(func, module) == module.name \o "." \o func.name

\* the (module, function) pairs in the order of the two nested loops
RECURSIVE WithModule(_, _)
WithModule(module_info, funcs) ==
    IF funcs = <<>> THEN <<>>
    ELSE <<[module |-> module_info, func |-> Head(funcs)]>>
         \o WithModule(module_info, Tail(funcs))

RECURSIVE FunctionsOfModules(_)
FunctionsOfModules(modules) ==
    IF modules = <<>> THEN <<>>
    ELSE WithModule(Head(modules)[2], GetAllFunctions(Head(modules)[2]))
         \o FunctionsOfModules(Tail(modules))

\* FunctionAnalyzer.extract_from_modules
RECURSIVE ExtractFunctionsFromModules(_)
ExtractFunctionsFromModules(modules) ==
    IF modules = <<>> THEN <<>>
    ELSE GetAllFunctions(Head(modules)[2]) \o ExtractFunctionsFromModules(Tail(modules))

\* function_map[func.name] = full_name, a later function of the same name
\* replacing the earlier one
RECURSIVE FunctionMap(_, _)
FunctionMap(function_map, pairs) ==
    IF pairs = <<>> THEN function_map
    ELSE FunctionMap(DictSet(function_map, Head(pairs).func.name,
                             GetFullFunctionName(Head(pairs).func, Head(pairs).module)),
                     Tail(pairs))

\* a call recorded in the edge list and the caller's list only
TrackCallForwardOnly(built, caller, callee, line_number) ==
    [edges |-> Append(built.edges, CallGraphEdge(caller, callee, line_number)),
     call_graph |-> DictAppend(built.call_graph, caller, callee),
     reverse_call_graph |-> built.reverse_call_graph]

TrackCall(built, caller, callee, line_number) ==
    [edges |-> Append(built.edges, CallGraphEdge(caller, callee, line_number)),
     call_graph |-> DictAppend(built.call_graph, caller, callee),
     reverse_call_graph |-> DictAppend(built.reverse_call_graph, callee, caller)]

RECURSIVE TrackCalls(_, _, _, _, _)
TrackCalls(built, caller, calls, line_number, function_map) ==
    IF calls = <<>> THEN built
    ELSE TrackCalls(TrackCall(built, caller,
                              DictGet(function_map, Head(calls), Head(calls)), line_number),
                    caller, Tail(calls), line_number, function_map)

RECURSIVE TrackFunctions(_, _, _)
TrackFunctions(built, pairs, function_map) ==
    IF pairs = <<>> THEN built
    ELSE TrackFunctions(
            TrackCalls(built, GetFullFunctionName(Head(pairs).func, Head(pairs).module),
                       Head(pairs).func.calls, Head(pairs).func.line_number, function_map),
            Tail(pairs), function_map)

CallGraphOnto(call_graph, reverse_call_graph, pairs) ==
    TrackFunctions([edges |-> <<>>, call_graph |-> call_graph,
                    reverse_call_graph |-> reverse_call_graph],
                   pairs, FunctionMap(<<>>, pairs))

BuildCallGraphWithoutClear(self, analysis_result) ==
    CallGraphOnto(self.call_graph, self.reverse_call_graph,
                  FunctionsOfModules(analysis_result.modules))

\* The edges returned and the two maps left in the analyzer (self), which are
\* cleared before anything is added.
BuildCallGraph(self, analysis_result) ==
    CallGraphOnto(<<>>, <<>>, FunctionsOfModules(analysis_result.modules))

(***************************************************************************)
(* analyzers/class_extractor.py                                            *)
(***************************************************************************)
\* self.class_hierarchy[cls.name] = cls.base_classes
RECURSIVE ClassHierarchy(_, _)
ClassHierarchy(class_hierarchy, classes) ==
    IF classes = <<>> THEN class_hierarchy
    ELSE ClassHierarchy(DictSet(class_hierarchy, Head(classes).name,
                                Head(classes).base_classes),
                        Tail(classes))

RECURSIVE AppendChild(_, _, _)
AppendChild(inheritance_tree, bases, child) ==
    IF bases = <<>> THEN inheritance_tree
    ELSE AppendChild(DictAppend(inheritance_tree, Head(bases), child), Tail(bases), child)

RECURSIVE InheritanceTree(_, _)
InheritanceTree(inheritance_tree, classes) ==
    IF classes = <<>> THEN inheritance_tree
    ELSE InheritanceTree(AppendChild(inheritance_tree, Head(classes).base_classes,
                                     Head(classes).name),
                         Tail(classes))

\* ClassExtractor._build_hierarchy: both maps are cleared first
BuildHierarchy(self, classes) ==
    [class_hierarchy |-> ClassHierarchy(<<>>, classes),
     inheritance_tree |-> InheritanceTree(<<>>, classes)]

RECURSIVE AllClasses(_)
AllClasses(modules) ==
    IF modules = <<>> THEN <<>>
    ELSE Head(modules)[2].classes \o AllClasses(Tail(modules))

\* ClassExtractor.extract_from_modules: the classes returned and the two maps
\* left in the extractor (self)
ExtractFromModules(self, analysis_result) ==
    BuildHierarchy(self, AllClasses(analysis_result.modules))
        @@ [all_classes |-> AllClasses(analysis_result.modules)]

(***************************************************************************)
(* analyzers/code_analyzer.py                                              *)
(***************************************************************************)
\* CodeAnalyzer._analyze_file
AnalyzeFile(file_info) == AstAnalyzeFile(file_info.path, file_info.content)

RecordFailureAsError(result, file_info, module_info) ==
    IF module_info # NoModule
    THEN [result EXCEPT !.modules = DictSet(@, file_info.path, module_info)]
    ELSE [result EXCEPT !.errors = Append(@, "Could not analyze: " \o file_info.path)]

\* the body of the loop over the Python files
RecordModule(result, file_info, module_info) ==
    IF module_info # NoModule
    THEN [result EXCEPT !.modules = DictSet(@, file_info.path, module_info)]
    ELSE [result EXCEPT !.warnings = Append(@, "Could not analyze: " \o file_info.path)]

RECURSIVE AnalyzeFiles(_, _)
AnalyzeFiles(result, python_files) ==
    IF python_files = <<>> THEN result
    ELSE AnalyzeFiles(RecordModule(result, Head(python_files),
                                   AnalyzeFile(Head(python_files))),
                      Tail(python_files))

\* the maps a builder leaves in its analyzer, without what it returns
DependencyMaps(built) ==
    [dependency_graph |-> built.dependency_graph,
     reverse_dependency_graph |-> built.reverse_dependency_graph]

CallMaps(built) ==
    [call_graph |-> built.call_graph, reverse_call_graph |-> built.reverse_call_graph]

ClassMaps(built) ==
    [class_hierarchy |-> built.class_hierarchy, inheritance_tree |-> built.inheritance_tree]

Analyzed(result, classes, all_functions, calls, dependencies) ==
    [result |-> [result EXCEPT !.all_classes = classes.all_classes,
                               !.all_functions = all_functions,
                               !.call_graph = calls.edges,
                               !.dependencies = dependencies.edges],
     class_extractor |-> ClassMaps(classes),
     function_analyzer |-> CallMaps(calls),
     dependency_mapper |-> DependencyMaps(dependencies)]

\* Steps 2 to 5 of analyze. Every step is handed the one result object and
\* reads only its modules, which none of the steps changes.
AnalyzeModules(self, result) ==
    Analyzed(result,
             ExtractFromModules(self.class_extractor, result),
             ExtractFunctionsFromModules(result.modules),
             BuildCallGraph(self.function_analyzer, result),
             BuildDependencyGraph(self.dependency_mapper, result))

\* CodeAnalyzer.analyze: the result returned and the three analyzers as the
\* call leaves them
Analyze(self, ing) ==
    AnalyzeModules(self, AnalyzeFiles(NewAnalysisResult, GetPythonFiles(ing)))

(***************************************************************************)
(* Calls on one CodeAnalyzer and its three analyzers                       *)
(***************************************************************************)
\* the record of a build call on an analyzer whose last build was `before`
Built(analysis_result, returned, before) ==
    [built |-> TRUE, analysis_result |-> analysis_result, returned |-> returned,
     replaced |-> before.built /\ before.analysis_result # analysis_result]

Analysis(op, input, output) == [op |-> op, input |-> input, output |-> output]

extract_from_modules(analysis_result) ==
    \E built \in {ExtractFromModules(class_extractor, analysis_result)} :
       /\ class_extractor' = ClassMaps(built)
       /\ lastBuilt' = [lastBuilt EXCEPT
                           !.class_extractor = Built(analysis_result, built.all_classes, @)]
       /\ UNCHANGED <<function_analyzer, dependency_mapper, analysis>>
       /\ UNCHANGED <<ingestionVars, scanVars, loaderVars, held>>

build_call_graph(analysis_result) ==
    \E built \in {BuildCallGraph(function_analyzer, analysis_result)} :
       /\ function_analyzer' = CallMaps(built)
       /\ lastBuilt' = [lastBuilt EXCEPT
                           !.function_analyzer = Built(analysis_result, built.edges, @)]
       /\ UNCHANGED <<class_extractor, dependency_mapper, analysis>>
       /\ UNCHANGED <<ingestionVars, scanVars, loaderVars, held>>

build_dependency_graph(analysis_result) ==
    \E built \in {BuildDependencyGraph(dependency_mapper, analysis_result)} :
       /\ dependency_mapper' = DependencyMaps(built)
       /\ lastBuilt' = [lastBuilt EXCEPT
                           !.dependency_mapper = Built(analysis_result, built.edges, @)]
       /\ UNCHANGED <<class_extractor, function_analyzer, analysis>>
       /\ UNCHANGED <<ingestionVars, scanVars, loaderVars, held>>

analyze(ing) ==
    \E done \in {Analyze([class_extractor |-> class_extractor,
                          function_analyzer |-> function_analyzer,
                          dependency_mapper |-> dependency_mapper], ing)} :
       /\ class_extractor' = done.class_extractor
       /\ function_analyzer' = done.function_analyzer
       /\ dependency_mapper' = done.dependency_mapper
       /\ lastBuilt' =
            [class_extractor |->
                 Built(done.result, done.result.all_classes, lastBuilt.class_extractor),
             function_analyzer |->
                 Built(done.result, done.result.call_graph, lastBuilt.function_analyzer),
             dependency_mapper |->
                 Built(done.result, done.result.dependencies, lastBuilt.dependency_mapper)]
       /\ analysis' = Analysis("analyze", ing, done.result)
       /\ UNCHANGED <<ingestionVars, scanVars, loaderVars, held>>

find_circular_dependencies ==
    /\ analysis' = Analysis("find_circular_dependencies", <<>>,
                            FindCircularDependencies(dependency_mapper))
    /\ UNCHANGED <<class_extractor, function_analyzer, dependency_mapper, lastBuilt>>
    /\ UNCHANGED <<ingestionVars, scanVars, loaderVars, held>>

calculate_coupling_metrics ==
    /\ analysis' = Analysis("calculate_coupling_metrics", <<>>,
                            CalculateCouplingMetrics(dependency_mapper))
    /\ UNCHANGED <<class_extractor, function_analyzer, dependency_mapper, lastBuilt>>
    /\ UNCHANGED <<ingestionVars, scanVars, loaderVars, held>>

\* ---------------------------------------------------------------------------
\* analyzers/dependency_mapper.py: find_root_modules
\* ---------------------------------------------------------------------------

\* [module for module in self.reverse_dependency_graph.keys()
\*  if module not in self.dependency_graph or not self.dependency_graph[module]]
FindRootModules(self) ==
    SelectSeq(DictKeys(self.reverse_dependency_graph),
              LAMBDA module : DictGet(self.dependency_graph, module, <<>>) = <<>>)

find_root_modules ==
    /\ analysis' = Analysis("find_root_modules", <<>>, FindRootModules(dependency_mapper))
    /\ UNCHANGED <<class_extractor, function_analyzer, dependency_mapper, lastBuilt>>
    /\ UNCHANGED <<ingestionVars, scanVars, loaderVars, held>>

\* ---------------------------------------------------------------------------
\* analyzers/dependency_mapper.py: get_dependency_layers
\* ---------------------------------------------------------------------------

LayerOf(layer, layer_map) == [layer |-> layer, layer_map |-> layer_map]

RECURSIVE GetLayer(_, _, _, _)
RECURSIVE MaxDepLayer(_, _, _, _, _)

\* A layer taken from the first dependency alone.
FirstDepLayer(self, dependencies, visited, layer_map, best) ==
    GetLayer(self, Head(dependencies), visited, layer_map)

\* max(get_layer(dep, visited.copy()) for dep in dependencies), filling layer_map
MaxDepLayer(self, dependencies, visited, layer_map, best) ==
    IF dependencies = <<>> THEN LayerOf(best, layer_map)
    ELSE \* bind the layer of the first dependency once
         LET first == GetLayer(self, Head(dependencies), visited, layer_map)
         IN  MaxDepLayer(self, Tail(dependencies), visited, first.layer_map,
                         IF first.layer > best THEN first.layer ELSE best)

GetLayer(self, module, visited, layer_map) ==
    IF DictHas(layer_map, module) THEN LayerOf(DictGet(layer_map, module, 0), layer_map)
    ELSE IF module \in visited THEN LayerOf(0, layer_map)
    ELSE IF DictGet(self.dependency_graph, module, <<>>) = <<>>
    THEN LayerOf(0, DictSet(layer_map, module, 0))
    ELSE LET deps == MaxDepLayer(self, DictGet(self.dependency_graph, module, <<>>),
                                 visited \cup {module}, layer_map, -1)
         IN  LayerOf(deps.layer + 1, DictSet(deps.layer_map, module, deps.layer + 1))

\* for module in self.dependency_graph.keys(): layers[get_layer(module, set())].append(module)
RECURSIVE LayersOver(_, _, _, _)
LayersOver(self, modules, layer_map, layers) ==
    IF modules = <<>> THEN layers
    ELSE LET placed == GetLayer(self, Head(modules), {}, layer_map)
         IN  LayersOver(self, Tail(modules), placed.layer_map,
                        DictAppend(layers, placed.layer, Head(modules)))

GetDependencyLayers(self) ==
    LayersOver(self, DictKeys(self.dependency_graph), <<>>, <<>>)

get_dependency_layers ==
    /\ analysis' = Analysis("get_dependency_layers", <<>>,
                            GetDependencyLayers(dependency_mapper))
    /\ UNCHANGED <<class_extractor, function_analyzer, dependency_mapper, lastBuilt>>
    /\ UNCHANGED <<ingestionVars, scanVars, loaderVars, held>>

analyze_external_dependencies(analysis_result) ==
    /\ analysis' = Analysis("analyze_external_dependencies", analysis_result,
                            AnalyzeExternalDependencies(analysis_result))
    /\ UNCHANGED <<class_extractor, function_analyzer, dependency_mapper, lastBuilt>>
    /\ UNCHANGED <<ingestionVars, scanVars, loaderVars, held>>

(***************************************************************************)
(* analyze on ingestions of files with distinct paths                      *)
(***************************************************************************)
\* a FileInfo as parse_file makes it for a file with this text
FileInfoOf(path, content) ==
    [path |-> path, relative_path |-> RelativeTo(path, ProjectDir),
     file_type |-> DetectFileType(path), size_bytes |-> Len(content),
     lines_of_code |-> CountLines(content), content |-> content]

AnalyzableFiles ==
    {FileInfoOf("/proj/api.py", "import app\nfrom os import path\ndef run(): app.start()"),
     FileInfoOf("/proj/api.py", "import app\ndef run(:"),
     FileInfoOf("/proj/app.py", "class App(Base): pass\ndef start(): pass\nLIMIT = 10"),
     FileInfoOf("/proj/app.py", "class App(Base) pass"),
     FileInfoOf("/proj/lib/app.py", "from .api import run"),
     FileInfoOf("/proj/web.js", "import app")}

\* every order of the elements of a set
RECURSIVE Orderings(_)
Orderings(S) ==
    IF S = {} THEN {<<>>}
    ELSE UNION {{<<x>> \o rest : rest \in Orderings(S \ {x})} : x \in S}

HasDistinctPaths(files) ==
    \A i, j \in DOMAIN files : files[i].path = files[j].path => i = j

RECURSIVE IngestionOf(_, _)
IngestionOf(ing, files) ==
    IF files = <<>> THEN ing ELSE IngestionOf(AddFile(ing, Head(files)), Tail(files))

AnalyzableIngestions ==
    {IngestionOf(EmptyIngestion, files) :
        files \in {o \in UNION {Orderings(F) : F \in SUBSET AnalyzableFiles} :
                      HasDistinctPaths(o)}}

NextAnalyze == \E ing \in AnalyzableIngestions : analyze(ing)

InitAnalyze ==
    /\ ingestion = EmptyIngestion
    /\ addCalls = <<>>
    /\ fs = EmptyProject
    /\ scanned = NotScanned
    /\ cloneDirs = {}
    /\ mkdtemps = 0
    /\ lastCall = NotCalled
    /\ class_extractor = NewClassExtractor
    /\ function_analyzer = NewFunctionAnalyzer
    /\ dependency_mapper = NewDependencyMapper
    /\ lastBuilt = NeverBuilt
    /\ analysis = NotAnalyzed
    /\ held = NothingHeld

SpecAnalyze == InitAnalyze /\ [][NextAnalyze]_vars

\* how many entries of the module map are keyed by this path
Keyed(result, path) ==
    Cardinality({i \in DOMAIN result.modules : result.modules[i][1] = path})

\* how many warnings are about this path
Warned(result, path) ==
    Cardinality({i \in DOMAIN result.warnings :
                    result.warnings[i] = "Could not analyze: " \o path})

\* C6: analyze returns a result whatever the files hold. Each file classified
\* as Python (the paths of the ingestion being distinct) has either exactly
\* one entry in the module map, keyed by its path, or exactly one warning,
\* never both; the error list stays empty; a file of any other type has
\* neither an entry nor a warning; and nothing else is in the map or the
\* warnings.
C6_UnparsedFilesWarn ==
    analysis.op = "analyze" =>
        /\ analysis.output.errors = <<>>
        /\ \A i \in DOMAIN analysis.input.files :
              IF analysis.input.files[i].file_type = "PYTHON"
              THEN Keyed(analysis.output, analysis.input.files[i].path)
                       + Warned(analysis.output, analysis.input.files[i].path) = 1
              ELSE /\ Keyed(analysis.output, analysis.input.files[i].path) = 0
                   /\ Warned(analysis.output, analysis.input.files[i].path) = 0
        /\ Len(analysis.output.modules) + Len(analysis.output.warnings)
              = Cardinality({i \in DOMAIN analysis.input.files :
                                analysis.input.files[i].file_type = "PYTHON"})
        /\ \A i \in DOMAIN analysis.output.modules :
              analysis.output.modules[i][2].file_path = analysis.output.modules[i][1]

\* an ingestion with a Python file that parses, one that does not, and a file
\* of another type has been analyzed
C6_Witness ==
    /\ analysis.op = "analyze"
    /\ analysis.output.modules # <<>>
    /\ analysis.output.warnings # <<>>
    /\ \E i \in DOMAIN analysis.input.files :
          analysis.input.files[i].file_type = "JAVASCRIPT"

(***************************************************************************)
(* Build calls, in any order, on analysis results                          *)
(***************************************************************************)
ResultOf(modules) == [NewAnalysisResult EXCEPT !.modules = modules]

BuildResults ==
    {ResultOf(<<>>),
     ResultOf(<<<<"/p/api.py",
                  ModuleInfo("api", "/p/api.py",
                             <<ImportInfo("app", <<"app">>, FALSE, 1),
                               ImportInfo("os", <<"path">>, TRUE, 2)>>,
                             <<>>,
                             <<FunctionInfo("run", "FUNCTION", <<"start">>, 3)>>, 3)>>,
                <<"/p/app.py",
                  ModuleInfo("app", "/p/app.py", <<>>,
                             <<ClassInfo("App", <<"Base">>, <<>>, 1)>>,
                             <<FunctionInfo("start", "FUNCTION", <<>>, 2)>>, 2)>>>>),
     ResultOf(<<<<"/p/Zed.py",
                  ModuleInfo("Zed", "/p/Zed.py",
                             <<ImportInfo("Zed", <<"Zed">>, FALSE, 1)>>,
                             <<ClassInfo("Widget", <<"App", "Mixin">>,
                                         <<FunctionInfo("draw", "METHOD", <<"print">>, 3)>>,
                                         2)>>,
                             <<>>, 3)>>>>),
     ResultOf(<<<<"/p/app.py",
                  ModuleInfo("app", "/p/app.py",
                             <<ImportInfo("api", <<"run">>, TRUE, 1)>>,
                             <<ClassInfo("Base", <<>>, <<>>, 2)>>,
                             <<FunctionInfo("main", "FUNCTION", <<"api.run">>, 3)>>, 3)>>>>)}

NextBuild ==
    \/ \E r \in BuildResults : build_dependency_graph(r)
    \/ \E r \in BuildResults : build_call_graph(r)
    \/ \E r \in BuildResults : extract_from_modules(r)

InitBuild ==
    /\ ingestion = EmptyIngestion
    /\ addCalls = <<>>
    /\ fs = EmptyProject
    /\ scanned = NotScanned
    /\ cloneDirs = {}
    /\ mkdtemps = 0
    /\ lastCall = NotCalled
    /\ class_extractor = NewClassExtractor
    /\ function_analyzer = NewFunctionAnalyzer
    /\ dependency_mapper = NewDependencyMapper
    /\ lastBuilt = NeverBuilt
    /\ analysis = NotAnalyzed
    /\ held = NothingHeld

SpecBuild == InitBuild /\ [][NextBuild]_vars

\* the values of a dict, and of a dict of lists
ModulesOf(analysis_result) == Range(DictValues(analysis_result.modules))

Entries(d) == UNION {Range(d[i][2]) : i \in DOMAIN d}

FunctionNamesOf(analysis_result) ==
    UNION {{GetFullFunctionName(f, m) : f \in Range(GetAllFunctions(m))} :
              m \in ModulesOf(analysis_result)}

CallNamesOf(analysis_result) ==
    UNION {UNION {Range(f.calls) : f \in Range(GetAllFunctions(m))} :
              m \in ModulesOf(analysis_result)}

ClassesOf(analysis_result) == UNION {Range(m.classes) : m \in ModulesOf(analysis_result)}

\* C7: whatever build calls came before, the maps of each analyzer are the
\* maps a new analyzer gets from the result passed to that analyzer's most
\* recent build call (and are empty before its first), and every key and
\* entry in them comes from that result: the dependency maps hold only its
\* module names, the call maps only its functions and the names they call,
\* the class maps only its classes and their bases.
C7_MapsFromLastBuild ==
    /\ dependency_mapper =
          IF lastBuilt.dependency_mapper.built
          THEN DependencyMaps(BuildDependencyGraph(
                   NewDependencyMapper, lastBuilt.dependency_mapper.analysis_result))
          ELSE NewDependencyMapper
    /\ function_analyzer =
          IF lastBuilt.function_analyzer.built
          THEN CallMaps(BuildCallGraph(
                   NewFunctionAnalyzer, lastBuilt.function_analyzer.analysis_result))
          ELSE NewFunctionAnalyzer
    /\ class_extractor =
          IF lastBuilt.class_extractor.built
          THEN ClassMaps(ExtractFromModules(
                   NewClassExtractor, lastBuilt.class_extractor.analysis_result))
          ELSE NewClassExtractor
    /\ lastBuilt.dependency_mapper.built =>
          /\ Range(DictKeys(dependency_mapper.dependency_graph))
                = {m.name : m \in ModulesOf(lastBuilt.dependency_mapper.analysis_result)}
          /\ Range(DictKeys(dependency_mapper.reverse_dependency_graph))
                   \cup Entries(dependency_mapper.dependency_graph)
                   \cup Entries(dependency_mapper.reverse_dependency_graph)
                \subseteq ModuleNames(lastBuilt.dependency_mapper.analysis_result)
    /\ lastBuilt.function_analyzer.built =>
          /\ Range(DictKeys(function_analyzer.call_graph))
                   \cup Entries(function_analyzer.reverse_call_graph)
                \subseteq FunctionNamesOf(lastBuilt.function_analyzer.analysis_result)
          /\ Range(DictKeys(function_analyzer.reverse_call_graph))
                   \cup Entries(function_analyzer.call_graph)
                \subseteq FunctionNamesOf(lastBuilt.function_analyzer.analysis_result)
                          \cup CallNamesOf(lastBuilt.function_analyzer.analysis_result)
    /\ lastBuilt.class_extractor.built =>
          /\ Range(DictKeys(class_extractor.class_hierarchy))
                   \cup Entries(class_extractor.inheritance_tree)
                = {c.name : c \in ClassesOf(lastBuilt.class_extractor.analysis_result)}
          /\ Range(DictKeys(class_extractor.inheritance_tree))
                   \cup Entries(class_extractor.class_hierarchy)
                = UNION {Range(c.base_classes) :
                            c \in ClassesOf(lastBuilt.class_extractor.analysis_result)}

\* each analyzer has been rebuilt from a result other than its previous one,
\* and the three were last built from results that are not all the same
C7_Witness ==
    /\ lastBuilt.dependency_mapper.built /\ lastBuilt.dependency_mapper.replaced
    /\ lastBuilt.function_analyzer.built /\ lastBuilt.function_analyzer.replaced
    /\ lastBuilt.class_extractor.built /\ lastBuilt.class_extractor.replaced
    /\ function_analyzer.call_graph # <<>>
    /\ dependency_mapper.dependency_graph # <<>>
    /\ lastBuilt.function_analyzer.analysis_result
          # lastBuilt.dependency_mapper.analysis_result

(***************************************************************************)
(* The dependency mapper: one graph built, then reports on it              *)
(***************************************************************************)
DepModuleNames == {"api", "app", "Zed"}

\* the modules named by the import statements of one module, in order
ImportChoices ==
    {<<>>, <<"api">>, <<"app">>, <<"Zed.core">>, <<"os", "app">>, <<"app", "api">>}

\* import <module>, one statement a line
RECURSIVE ImportLines(_, _)
ImportLines(imported, line_number) ==
    IF line_number > Len(imported) THEN <<>>
    ELSE <<ImportInfo(imported[line_number], <<imported[line_number]>>, FALSE, line_number)>>
         \o ImportLines(imported, line_number + 1)

DepModule(name, imported) ==
    <<"/p/" \o name \o ".py",
      ModuleInfo(name, "/p/" \o name \o ".py", ImportLines(imported, 1), <<>>, <<>>,
                 IF imported = <<>> THEN 1 ELSE Len(imported))>>

RECURSIVE DepModules(_, _)
DepModules(names, imported) ==
    IF names = <<>> THEN <<>>
    ELSE <<DepModule(Head(names), Head(imported))>> \o DepModules(Tail(names), Tail(imported))

\* every choice of import statements for modules analyzed in this order
RECURSIVE ImportChoicesFor(_)
ImportChoicesFor(names) ==
    IF names = <<>> THEN {<<>>}
    ELSE {<<first>> \o rest : first \in ImportChoices, rest \in ImportChoicesFor(Tail(names))}

DepResults ==
    UNION {{ResultOf(DepModules(names, imported)) : imported \in ImportChoicesFor(names)} :
              names \in UNION {Orderings(N) : N \in (SUBSET DepModuleNames) \ {{}}}}

NextDep ==
    \/ /\ ~lastBuilt.dependency_mapper.built
       /\ analysis = NotAnalyzed
       /\ \E r \in DepResults : build_dependency_graph(r)
    \/ find_circular_dependencies
    \/ calculate_coupling_metrics
    \/ find_root_modules
    \/ get_dependency_layers
    \/ /\ lastBuilt.dependency_mapper.built
       /\ analyze_external_dependencies(lastBuilt.dependency_mapper.analysis_result)

InitDep ==
    /\ ingestion = EmptyIngestion
    /\ addCalls = <<>>
    /\ fs = EmptyProject
    /\ scanned = NotScanned
    /\ cloneDirs = {}
    /\ mkdtemps = 0
    /\ lastCall = NotCalled
    /\ class_extractor = NewClassExtractor
    /\ function_analyzer = NewFunctionAnalyzer
    /\ dependency_mapper = NewDependencyMapper
    /\ lastBuilt = NeverBuilt
    /\ analysis = NotAnalyzed
    /\ held = NothingHeld

SpecDep == InitDep /\ [][NextDep]_vars

\* the part of a dotted module path before its first dot
RootSegment(module_path) ==
    IF FindSub(module_path, ".") = 0 THEN module_path
    ELSE SubSeq(module_path, 1, FindSub(module_path, ".") - 1)

\* the import statements of a result, each with the name of its module
ImportStatements(analysis_result) ==
    UNION {{[at |-> <<i, j>>, source |-> analysis_result.modules[i][2].name,
             root |-> RootSegment(analysis_result.modules[i][2].imports[j].module)] :
               j \in DOMAIN analysis_result.modules[i][2].imports} :
              i \in DOMAIN analysis_result.modules}

EdgesBetween(edges, source, target) ==
    Cardinality({i \in DOMAIN edges : edges[i].source = source /\ edges[i].target = target})

ImportsBetween(statements, source, root) ==
    Cardinality({st \in statements : st.source = source /\ st.root = root})

ImportsOfRoot(statements, root) == Cardinality({st \in statements : st.root = root})

EachImportOnce(names, statements, edges, external) ==
    /\ \A source \in names, root \in {st.root : st \in statements} \cup names :
          EdgesBetween(edges, source, root)
             = IF root \in names THEN ImportsBetween(statements, source, root) ELSE 0
    /\ \A i \in DOMAIN edges : edges[i].source \in names /\ edges[i].target \in names
    /\ \A i, j \in DOMAIN external : external[i][1] = external[j][1] => i = j
    /\ \A i \in DOMAIN external :
          /\ external[i][1] \notin names
          /\ external[i][2] = ImportsOfRoot(statements, external[i][1])
    /\ \A st \in statements : st.root \notin names => DictHas(external, st.root)
    /\ Len(edges) + SeqSum(DictValues(external)) = Cardinality(statements)

\* C8: for the result a dependency graph was built from, every import
\* statement is counted once. Between a module and the name of an ingested
\* module there are as many edges as the module has imports with that root
\* segment; every edge runs from an ingested module to an ingested module;
\* analyze_external_dependencies tallies, for each root segment that is not
\* an ingested module, the number of imports with that root, and nothing
\* else; and the edges and the tallies add up to the number of imports.
C8_EachImportOnce ==
    (/\ analysis.op = "analyze_external_dependencies"
     /\ lastBuilt.dependency_mapper.built
     /\ analysis.input = lastBuilt.dependency_mapper.analysis_result)
    => EachImportOnce(ModuleNames(analysis.input), ImportStatements(analysis.input),
                      lastBuilt.dependency_mapper.returned, analysis.output)

\* a result with internal and external imports has been built and tallied
C8_Witness ==
    /\ analysis.op = "analyze_external_dependencies"
    /\ lastBuilt.dependency_mapper.built
    /\ analysis.input = lastBuilt.dependency_mapper.analysis_result
    /\ Len(lastBuilt.dependency_mapper.returned) >= 2
    /\ analysis.output # <<>>

\* the module reached from `module` by following its first dependency k times
RECURSIVE Walk(_, _, _)
Walk(graph, module, k) ==
    IF k = 0 \/ DictGet(graph, module, <<>>) = <<>> THEN module
    ELSE Walk(graph, DictGet(graph, module, <<>>)[1], k - 1)

\* the graph is one directed cycle over two or more distinct modules
IsOneCycle(graph) ==
    /\ Len(graph) >= 2
    /\ \A i \in DOMAIN graph : Len(graph[i][2]) = 1 /\ DictHas(graph, graph[i][2][1])
    /\ {Walk(graph, graph[1][1], k) : k \in 0..(Len(graph) - 1)} = Range(DictKeys(graph))
    /\ Walk(graph, graph[1][1], Len(graph)) = graph[1][1]

\* the list goes round the graph once along its edges, back to where it began
IsCycleOf(graph, cycle) ==
    /\ Len(cycle) = Len(graph) + 1
    /\ cycle[1] = cycle[Len(cycle)]
    /\ \A i \in 1..(Len(cycle) - 1) :
          cycle[i + 1] \in Range(DictGet(graph, cycle[i], <<>>))
    /\ Range(cycle) = Range(DictKeys(graph))

\* C9: when the dependency graph is one directed cycle over distinct
\* modules, find_circular_dependencies reports exactly one list; the list is
\* that cycle, going through each of the modules along the edges of the
\* graph; and it starts at the smallest module name, in whatever order the
\* modules were put into the graph.
C9_OneCycleFromSmallest ==
    (/\ analysis.op = "find_circular_dependencies"
     /\ IsOneCycle(dependency_mapper.dependency_graph))
    => /\ Len(analysis.output) = 1
       /\ IsCycleOf(dependency_mapper.dependency_graph, analysis.output[1])
       /\ \A m \in Range(DictKeys(dependency_mapper.dependency_graph)) :
             ~StrLess(m, analysis.output[1][1])

Outgoing(edges, module) == Cardinality({i \in DOMAIN edges : edges[i].source = module})

Incoming(edges, module) == Cardinality({i \in DOMAIN edges : edges[i].target = module})

Importers(edges, module) == {edges[i].source : i \in {j \in DOMAIN edges : edges[j].target = module}}

\* an entry for every module on either side, with the counts of its edges
CouplingCounts(edges, metrics) ==
    /\ DOMAIN metrics = Range(DictKeys(dependency_mapper.dependency_graph))
                           \cup Range(DictKeys(dependency_mapper.reverse_dependency_graph))
    /\ \A m \in DOMAIN metrics :
          /\ metrics[m].efferent_coupling = Outgoing(edges, m)
          /\ metrics[m].afferent_coupling = Incoming(edges, m)
          /\ metrics[m].total_coupling = Outgoing(edges, m) + Incoming(edges, m)
          /\ (Outgoing(edges, m) + Incoming(edges, m) = 0)
                => metrics[m].instability_thousandths = 0
          /\ (Cardinality(Importers(edges, m) \ {m}) = 2 /\ Incoming(edges, m) = 2
                 /\ Outgoing(edges, m) = 0)
                => /\ metrics[m].afferent_coupling = 2
                   /\ metrics[m].efferent_coupling = 0
                   /\ metrics[m].instability_thousandths = 0

\* C10 as stated: an entry for every module on either side of the maps, with
\* efferent, afferent and total coupling as counted from the edges, and the
\* instability exactly efferent / (efferent + afferent), 0 when the total is 0.
C10_InstabilityExact ==
    (analysis.op = "calculate_coupling_metrics" /\ lastBuilt.dependency_mapper.built)
    => /\ CouplingCounts(lastBuilt.dependency_mapper.returned, analysis.output)
       /\ \A m \in DOMAIN analysis.output :
             analysis.output[m].instability_thousandths * analysis.output[m].total_coupling
                = 1000 * analysis.output[m].efferent_coupling

\* C10, amended: as above, but the instability is
\* efferent / (efferent + afferent) rounded to three decimals, that is, the
\* thousandth nearest to the quotient.
C10_InstabilityRounded ==
    (analysis.op = "calculate_coupling_metrics" /\ lastBuilt.dependency_mapper.built)
    => /\ CouplingCounts(lastBuilt.dependency_mapper.returned, analysis.output)
       /\ \A m \in DOMAIN analysis.output :
             /\ 2 * (1000 * analysis.output[m].efferent_coupling
                       - analysis.output[m].instability_thousandths
                            * analysis.output[m].total_coupling)
                   <= analysis.output[m].total_coupling
             /\ 2 * (analysis.output[m].instability_thousandths
                            * analysis.output[m].total_coupling
                       - 1000 * analysis.output[m].efferent_coupling)
                   <= analysis.output[m].total_coupling

\* metrics were computed for a graph in which one module is imported by two
\* others and imports nothing, and another has a quotient that is not a
\* whole number of thousandths
C10_Witness ==
    /\ analysis.op = "calculate_coupling_metrics"
    /\ lastBuilt.dependency_mapper.built
    /\ \E m \in DOMAIN analysis.output :
          /\ analysis.output[m].afferent_coupling = 2
          /\ analysis.output[m].efferent_coupling = 0
          /\ Cardinality(Importers(lastBuilt.dependency_mapper.returned, m) \ {m}) = 2
    /\ \E m \in DOMAIN analysis.output :
          analysis.output[m].instability_thousandths * analysis.output[m].total_coupling
             # 1000 * analysis.output[m].efferent_coupling

(***************************************************************************)
(* FunctionAnalyzer.get_unused_functions, after one call graph is built    *)
(***************************************************************************)
\* name.startswith('__') and name.endswith('__')
IsDunder(name) == StartsWith(name, "__") /\ EndsWith(name, "__")

\* not self.reverse_call_graph[name], for a name that may not be a key
HasNoCallers(self, name) == DictGet(self.reverse_call_graph, name, <<>>) = <<>>

RECURSIVE GetUnusedFunctions(_, _)
GetUnusedFunctions(self, functions) ==
    IF functions = <<>> THEN <<>>
    ELSE (IF ~IsDunder(Head(functions).name) /\ HasNoCallers(self, Head(functions).name)
          THEN <<Head(functions).name>> ELSE <<>>)
         \o GetUnusedFunctions(self, Tail(functions))

get_unused_functions(functions) ==
    /\ analysis' = Analysis("get_unused_functions", functions,
                            GetUnusedFunctions(function_analyzer, functions))
    /\ UNCHANGED <<class_extractor, function_analyzer, dependency_mapper, lastBuilt>>
    /\ UNCHANGED <<ingestionVars, scanVars, loaderVars, held>>

\* ---------------------------------------------------------------------------
\* analyzers/function_analyzer.py: find_mutually_recursive_functions
\* ---------------------------------------------------------------------------

\* set(list(path)[list(path).index(func):]) where path is a Python set: list(path)
\* is in hash order, which for strings changes from one process to the next, so
\* func may be followed by any of the other members of the path.
CycleSlices(path, func) == {{func} \cup rest : rest \in SUBSET (path \ {func})}

Searched(visited, mutual_groups) == [visited |-> visited, mutual_groups |-> mutual_groups]

NoCycle == [tag |-> "None"]
CycleFoundAt(members) == [tag |-> "set", members |-> members]

RECURSIVE MutualDfs(_, _, _, _)
RECURSIVE MutualDfsCallees(_, _, _, _)

\* for callee in self.call_graph.get(func, []): the states the loop can end in
MutualDfsCallees(self, callees, path, searches) ==
    IF callees = <<>> THEN searches
    ELSE MutualDfsCallees(self, Tail(callees), path,
             UNION {{IF found.cycle.tag = "set" /\ Cardinality(found.cycle.members) > 1
                     THEN Searched(found.search.visited,
                                   Append(found.search.mutual_groups, found.cycle.members))
                     ELSE found.search :
                        found \in MutualDfs(self, Head(callees), path, search)} :
                    search \in searches})

\* dfs(func, path): every (returned cycle, state of visited and mutual_groups)
MutualDfs(self, func, path, search) ==
    IF func \in path
    THEN {[cycle |-> CycleFoundAt(members), search |-> search] :
             members \in CycleSlices(path, func)}
    ELSE IF func \in search.visited THEN {[cycle |-> NoCycle, search |-> search]}
    ELSE {[cycle |-> NoCycle, search |-> after] :
             after \in MutualDfsCallees(self, DictGet(self.call_graph, func, <<>>),
                                        path \cup {func},
                                        {Searched(search.visited \cup {func},
                                                  search.mutual_groups)})}

\* for func in self.call_graph.keys(): if func not in visited: dfs(func, set())
RECURSIVE MutualDfsFromEach(_, _, _)
MutualDfsFromEach(self, funcs, searches) ==
    IF funcs = <<>> THEN searches
    ELSE MutualDfsFromEach(self, Tail(funcs),
             UNION {IF Head(funcs) \in search.visited THEN {search}
                    ELSE {found.search : found \in MutualDfs(self, Head(funcs), {}, search)} :
                    search \in searches})

\* the groups in order, each set kept the first time it occurs
RECURSIVE UniqueGroups(_, _)
UniqueGroups(mutual_groups, seen) ==
    IF mutual_groups = <<>> THEN <<>>
    ELSE IF Head(mutual_groups) \in seen THEN UniqueGroups(Tail(mutual_groups), seen)
    ELSE <<Head(mutual_groups)>>
         \o UniqueGroups(Tail(mutual_groups), seen \cup {Head(mutual_groups)})

\* every list the call can return
FindMutuallyRecursiveFunctions(self) ==
    {UniqueGroups(search.mutual_groups, {}) :
        search \in MutualDfsFromEach(self, DictKeys(self.call_graph), {Searched({}, <<>>)})}

find_mutually_recursive_functions ==
    /\ \E groups \in FindMutuallyRecursiveFunctions(function_analyzer) :
          analysis' = Analysis("find_mutually_recursive_functions", <<>>, groups)
    /\ UNCHANGED <<class_extractor, function_analyzer, dependency_mapper, lastBuilt>>
    /\ UNCHANGED <<ingestionVars, scanVars, loaderVars, held>>

CallableNames == {"a", "b", "__init__"}

\* the names one function calls
CallChoices == {<<>>, <<"b">>, <<"a">>, <<"m.b", "print">>}

RECURSIVE FunctionsCalling(_, _, _)
FunctionsCalling(names, calls, line_number) ==
    IF names = <<>> THEN <<>>
    ELSE <<FunctionInfo(Head(names), "FUNCTION", Head(calls), line_number)>>
         \o FunctionsCalling(Tail(names), Tail(calls), line_number + 1)

RECURSIVE CallChoicesFor(_)
CallChoicesFor(names) ==
    IF names = <<>> THEN {<<>>}
    ELSE {<<first>> \o rest : first \in CallChoices, rest \in CallChoicesFor(Tail(names))}

\* one module m whose functions are these, in this order
CallResultOf(functions) ==
    ResultOf(<<<<"/p/m.py",
                 ModuleInfo("m", "/p/m.py", <<>>, <<>>, functions, Len(functions))>>>>)

CallResults ==
    UNION {{CallResultOf(FunctionsCalling(names, calls, 1)) : calls \in CallChoicesFor(names)} :
              names \in UNION {Orderings(N) : N \in (SUBSET CallableNames) \ {{}}}}

NextUnused ==
    \/ /\ ~lastBuilt.function_analyzer.built
       /\ \E r \in CallResults : build_call_graph(r)
    \/ /\ lastBuilt.function_analyzer.built
       /\ find_mutually_recursive_functions
    \/ /\ lastBuilt.function_analyzer.built
       /\ get_unused_functions(
              ExtractFunctionsFromModules(lastBuilt.function_analyzer.analysis_result.modules))

InitUnused ==
    /\ ingestion = EmptyIngestion
    /\ addCalls = <<>>
    /\ fs = EmptyProject
    /\ scanned = NotScanned
    /\ cloneDirs = {}
    /\ mkdtemps = 0
    /\ lastCall = NotCalled
    /\ class_extractor = NewClassExtractor
    /\ function_analyzer = NewFunctionAnalyzer
    /\ dependency_mapper = NewDependencyMapper
    /\ lastBuilt = NeverBuilt
    /\ analysis = NotAnalyzed
    /\ held = NothingHeld

SpecUnused == InitUnused /\ [][NextUnused]_vars

\* some analyzed function records this name as one it calls
IsRecordedCallee(functions, name) ==
    \E i \in DOMAIN functions : name \in Range(functions[i].calls)

\* C11: after build_call_graph on a result, get_unused_functions on that
\* result's functions reports a function exactly when its name is not a
\* dunder name and no analyzed function records it as a callee; so for a
\* calling b and b calling nothing it reports a and does not report b.
C11_UnusedAreUncalled ==
    analysis.op = "get_unused_functions" =>
        \A i \in DOMAIN analysis.input :
            (analysis.input[i].name \in Range(analysis.output))
               <=> (/\ ~IsDunder(analysis.input[i].name)
                    /\ ~IsRecordedCallee(analysis.input, analysis.input[i].name))

(***************************************************************************)
(* FunctionInfo objects made from names with and without underscores       *)
(***************************************************************************)
Underscores == {"", "_", "__", "___"}

NameStems == {"foo", "init", "a_b", "x", "Run", "f2", "get__x"}

FunctionNames == {before \o stem \o after : before \in Underscores, stem \in NameStems,
                                             after \in Underscores}
                    \cup {"_", "__", "___", "____"}

\* FunctionInfo(name=..., node_type=...)
new_function_info(name, node_type) ==
    /\ analysis' = Analysis("FunctionInfo", name, FunctionInfo(name, node_type, <<>>, 1))
    /\ UNCHANGED <<class_extractor, function_analyzer, dependency_mapper, lastBuilt>>
    /\ UNCHANGED <<ingestionVars, scanVars, loaderVars, held>>

NextVisibility ==
    \E name \in FunctionNames, node_type \in {"FUNCTION", "METHOD"} :
        new_function_info(name, node_type)

InitVisibility ==
    /\ ingestion = EmptyIngestion
    /\ addCalls = <<>>
    /\ fs = EmptyProject
    /\ scanned = NotScanned
    /\ cloneDirs = {}
    /\ mkdtemps = 0
    /\ lastCall = NotCalled
    /\ class_extractor = NewClassExtractor
    /\ function_analyzer = NewFunctionAnalyzer
    /\ dependency_mapper = NewDependencyMapper
    /\ lastBuilt = NeverBuilt
    /\ analysis = NotAnalyzed
    /\ held = NothingHeld

SpecVisibility == InitVisibility /\ [][NextVisibility]_vars

\* how many underscores the name begins with
RECURSIVE LeadingUnderscores(_)
LeadingUnderscores(name) ==
    IF name # "" /\ SubSeq(name, 1, 1) = "_"
    THEN 1 + LeadingUnderscores(SubSeq(name, 2, Len(name)))
    ELSE 0

\* C12: the visibility of a FunctionInfo follows from its name: private when
\* the name has two leading underscores and does not end with two
\* underscores, protected when it has exactly one leading underscore, and
\* public otherwise, dunder names such as __init__ included.
C12_VisibilityFromName ==
    analysis.op = "FunctionInfo" =>
        analysis.output.visibility =
            IF StartsWith(analysis.input, "__") /\ ~EndsWith(analysis.input, "__")
            THEN "PRIVATE"
            ELSE IF LeadingUnderscores(analysis.input) = 1 THEN "PROTECTED"
            ELSE "PUBLIC"

\* ---------------------------------------------------------------------------
\* diagram_generators/diagram_generator.py: DiagramGenerator
\* ---------------------------------------------------------------------------

MaxFormats == 2

DiagramFormats == {"MERMAID", "PLANTUML", "GRAPHVIZ", "D2"}
AnalysisDiagramTypes == <<"CLASS_DIAGRAM", "DEPENDENCY_DIAGRAM", "CALL_GRAPH">>

NoneGiven == [tag |-> "None"]
ListOf(items) == [tag |-> "list", items |-> items]
\* Python truth value of an Optional[List]: None and the empty list are both false
Truthy(optional_list) == optional_list.tag = "list" /\ optional_list.items # <<>>

DiagramOutput(content, format, diagram_type) ==
    [tag |-> "DiagramOutput", content |-> content, format |-> format,
     diagram_type |-> diagram_type]

\* _get_generator
GetGenerator(format) ==
    IF format = "MERMAID" THEN [tag |-> "MermaidGenerator"]
    ELSE IF format = "PLANTUML" THEN [tag |-> "PlantUMLGenerator"]
    ELSE Raised("ValueError")

MermaidTypes == {"CLASS_DIAGRAM", "DEPENDENCY_DIAGRAM", "CALL_GRAPH"}
PlantUMLTypes == {"CLASS_DIAGRAM", "DEPENDENCY_DIAGRAM", "COMPONENT_DIAGRAM"}

\* The text a renderer produces, or the exception it raises on an analysis
\* result it cannot walk (analysis_result.unrenderable names those diagram types).
Render(generator, diagram_type, analysis_result) ==
    IF diagram_type \in analysis_result.unrenderable THEN Raised("AttributeError")
    ELSE [tag |-> "content", text |-> generator.tag \o ":" \o diagram_type]

\* MermaidGenerator.generate / PlantUMLGenerator.generate
GeneratorGenerate(generator, format, diagram_type, analysis_result) ==
    IF diagram_type \notin (IF generator.tag = "MermaidGenerator" THEN MermaidTypes
                            ELSE PlantUMLTypes)
    THEN Raised("ValueError")
    ELSE LET content == Render(generator, diagram_type, analysis_result)
         IN  IF content.tag = "raise" THEN content
             ELSE DiagramOutput(content.text, format, diagram_type)

\* DiagramGenerator.generate, reached through generate_class_diagram,
\* generate_dependency_diagram and generate_call_graph
Generate(analysis_result, format, diagram_type) ==
    LET generator == GetGenerator(format)
    IN  IF generator.tag = "raise" THEN generator
        ELSE GeneratorGenerate(generator, format, diagram_type, analysis_result)

\* MermaidGenerator.generate_api_diagram reads result.endpoints of every item
ApiContent(api_results) ==
    IF \E i \in 1..Len(api_results.items) : api_results.items[i] = "no_endpoints"
    THEN Raised("AttributeError")
    ELSE [tag |-> "content", text |-> "MermaidGenerator:API_DIAGRAM"]

GenerateApiDiagram(api_results, format) ==
    LET generator == GetGenerator(format)
    IN  IF generator.tag = "raise" THEN generator
        ELSE IF generator.tag = "MermaidGenerator"
        THEN LET content == ApiContent(api_results)
             IN  IF content.tag = "raise" THEN content
                 ELSE DiagramOutput(content.text, format, "API_DIAGRAM")
        ELSE Raised("NotImplementedError")

Attempt(format, diagram_type) == [format |-> format, diagram_type |-> diagram_type]

\* the try blocks of one pass of the loop over formats, in program order
AttemptsFor(format, api_results) ==
    [i \in 1..3 |-> Attempt(format, AnalysisDiagramTypes[i])]
    \o (IF Truthy(api_results) THEN <<Attempt(format, "API_DIAGRAM")>> ELSE <<>>)

RECURSIVE AttemptsOf(_, _)
AttemptsOf(formats, api_results) ==
    IF formats = <<>> THEN <<>>
    ELSE AttemptsFor(Head(formats), api_results) \o AttemptsOf(Tail(formats), api_results)

AttemptOutcome(analysis_result, api_results, attempt) ==
    IF attempt.diagram_type = "API_DIAGRAM"
    THEN GenerateApiDiagram(api_results, attempt.format)
    ELSE Generate(analysis_result, attempt.format, attempt.diagram_type)

MultiDiagramOutput(diagrams, outcomes, raised) ==
    [diagrams |-> diagrams, outcomes |-> outcomes, raised |-> raised]

\* A generate_all whose first failing attempt leaves the method.
RECURSIVE RunAttemptsUnguarded(_, _, _, _)
RunAttemptsUnguarded(analysis_result, api_results, attempts, output) ==
    IF attempts = <<>> THEN output
    ELSE LET outcome == AttemptOutcome(analysis_result, api_results, Head(attempts))
         IN  IF outcome.tag = "raise"
             THEN MultiDiagramOutput(output.diagrams,
                                     Append(output.outcomes, outcome), TRUE)
             ELSE RunAttemptsUnguarded(analysis_result, api_results, Tail(attempts),
                      MultiDiagramOutput(Append(output.diagrams, outcome),
                                         Append(output.outcomes, outcome), FALSE))

\* try: output.add_diagram(...) except Exception: print(...), once per attempt
RECURSIVE RunAttempts(_, _, _, _)
RunAttempts(analysis_result, api_results, attempts, output) ==
    IF attempts = <<>> THEN output
    ELSE LET outcome == AttemptOutcome(analysis_result, api_results, Head(attempts))
         IN  RunAttempts(analysis_result, api_results, Tail(attempts),
                 MultiDiagramOutput(
                     IF outcome.tag = "raise" THEN output.diagrams
                     ELSE Append(output.diagrams, outcome),
                     Append(output.outcomes, outcome), FALSE))

\* if formats is None: formats = [DiagramFormat.MERMAID]
FormatsOrDefault(formats) == IF formats = NoneGiven THEN <<"MERMAID">> ELSE formats.items

GenerateAll(analysis_result, api_results, formats) ==
    RunAttempts(analysis_result, api_results,
                AttemptsOf(FormatsOrDefault(formats), api_results),
                MultiDiagramOutput(<<>>, <<>>, FALSE))

generate_all(analysis_result, api_results, formats) ==
    /\ analysis' = Analysis("generate_all",
                            [analysis_result |-> analysis_result,
                             api_results |-> api_results, formats |-> formats],
                            GenerateAll(analysis_result, api_results, formats))
    /\ UNCHANGED <<ingestionVars, scanVars, loaderVars, class_extractor,
                   function_analyzer, dependency_mapper, lastBuilt, held>>

\* ---------------------------------------------------------------------------
\* SpecDiagrams: one generate_all call on a fresh DiagramGenerator
\* ---------------------------------------------------------------------------

FormatLists == UNION {[1..n -> DiagramFormats] : n \in 0..MaxFormats}
FormatArguments == {NoneGiven} \cup {ListOf(f) : f \in FormatLists}
ApiArguments ==
    {NoneGiven, ListOf(<<>>), ListOf(<<"endpoints">>), ListOf(<<"endpoints", "no_endpoints">>)}
RenderableResults == {[unrenderable |-> s] : s \in SUBSET MermaidTypes}

NextDiagrams ==
    /\ analysis = NotAnalyzed
    /\ \E analysis_result \in RenderableResults, api_results \in ApiArguments,
          formats \in FormatArguments :
          generate_all(analysis_result, api_results, formats)

InitDiagrams ==
    /\ ingestion = EmptyIngestion
    /\ addCalls = <<>>
    /\ fs = EmptyProject
    /\ scanned = NotScanned
    /\ cloneDirs = {}
    /\ mkdtemps = 0
    /\ lastCall = NotCalled
    /\ class_extractor = NewClassExtractor
    /\ function_analyzer = NewFunctionAnalyzer
    /\ dependency_mapper = NewDependencyMapper
    /\ lastBuilt = NeverBuilt
    /\ analysis = NotAnalyzed
    /\ held = NothingHeld

SpecDiagrams == InitDiagrams /\ [][NextDiagrams]_vars

RECURSIVE Succeeded(_)
Succeeded(outcomes) ==
    IF outcomes = <<>> THEN <<>>
    ELSE (IF Head(outcomes).tag = "raise" THEN <<>> ELSE <<Head(outcomes)>>)
         \o Succeeded(Tail(outcomes))

ExpectedTypes(api_results) ==
    IF api_results.tag = "list" /\ Len(api_results.items) > 0
    THEN <<"CLASS_DIAGRAM", "DEPENDENCY_DIAGRAM", "CALL_GRAPH", "API_DIAGRAM">>
    ELSE <<"CLASS_DIAGRAM", "DEPENDENCY_DIAGRAM", "CALL_GRAPH">>

ExpectedFormats(formats) ==
    IF formats.tag = "list" THEN formats.items ELSE <<"MERMAID">>

\* C13: generate_all returns without raising; it makes one attempt per requested
\* format and diagram type, formats in the order given and, within a format,
\* class, dependency, call graph and (only with a non-empty list of API results)
\* API; the returned diagrams are exactly the successful attempts in that order.
C13_EveryAttemptMade ==
    analysis.op = "generate_all" =>
        LET out == analysis.output
            types == ExpectedTypes(analysis.input.api_results)
            fmts == ExpectedFormats(analysis.input.formats)
            k == Len(types)
        IN  /\ ~out.raised
            /\ Len(out.outcomes) = Len(fmts) * k
            /\ \A i \in 1..Len(out.outcomes) :
                  out.outcomes[i].tag # "raise" =>
                      /\ out.outcomes[i].format = fmts[((i - 1) \div k) + 1]
                      /\ out.outcomes[i].diagram_type = types[((i - 1) % k) + 1]
            /\ out.diagrams = Succeeded(out.outcomes)

\* a failed attempt with a success before it and a success after it
C13_Witness ==
    /\ analysis.op = "generate_all"
    /\ \E i, j, l \in 1..Len(analysis.output.outcomes) :
          /\ i < j /\ j < l
          /\ analysis.output.outcomes[i].tag # "raise"
          /\ analysis.output.outcomes[j].tag = "raise"
          /\ analysis.output.outcomes[l].tag # "raise"
    /\ Len(analysis.output.diagrams) >= 2

\* C14: when a scan returns, primary_language is None if the language histogram
\* is empty, and otherwise a key of the histogram with the largest file count.
C14_PrimaryLanguageIsMostFrequent ==
    (scanned.op # "none" /\ scanned.outcome.tag = "return") =>
        LET md == scanned.outcome.ingestion.metadata IN
        IF md.languages = <<>> THEN md.primary_language = "None"
        ELSE \E i \in DOMAIN md.languages :
                /\ md.languages[i][1] = md.primary_language
                /\ \A j \in DOMAIN md.languages : md.languages[j][2] <= md.languages[i][2]

\* the same statement for scan_directory and scan_files alone
C14_PrimaryLanguageIsMostFrequentOutsideFileScan ==
    scanned.op \in {"scan_directory", "scan_files"} => C14_PrimaryLanguageIsMostFrequent

\* ---------------------------------------------------------------------------
\* SpecIgnore: one should_ignore call on a path of up to MaxComponents names
\* ---------------------------------------------------------------------------

MaxComponents == 3

RECURSIVE JoinPath(_)
JoinPath(components) ==
    IF Len(components) = 1 THEN components[1]
    ELSE components[1] \o "/" \o JoinPath(Tail(components))

should_ignore(components, prefix) ==
    \E path \in {prefix \o JoinPath(components)} :
       /\ analysis' = Analysis("should_ignore",
                               [components |-> components, path |-> path],
                               ShouldIgnore(path))
       /\ UNCHANGED <<ingestionVars, scanVars, loaderVars, class_extractor,
                      function_analyzer, dependency_mapper, lastBuilt, held>>

ComponentNames ==
    {"project", "src", ".git", "node_modules", "config", "x.js", "main.py",
     ".env.example", ".gitignore", ".hidden", "x*.swp"}

ComponentLists == UNION {[1..n -> ComponentNames] : n \in 1..MaxComponents}

NextIgnore ==
    /\ analysis = NotAnalyzed
    /\ \E components \in ComponentLists, prefix \in {"", "/"} :
          should_ignore(components, prefix)

InitIgnore ==
    /\ ingestion = EmptyIngestion
    /\ addCalls = <<>>
    /\ fs = EmptyProject
    /\ scanned = NotScanned
    /\ cloneDirs = {}
    /\ mkdtemps = 0
    /\ lastCall = NotCalled
    /\ class_extractor = NewClassExtractor
    /\ function_analyzer = NewFunctionAnalyzer
    /\ dependency_mapper = NewDependencyMapper
    /\ lastBuilt = NeverBuilt
    /\ analysis = NotAnalyzed
    /\ held = NothingHeld

SpecIgnore == InitIgnore /\ [][NextIgnore]_vars

HasIgnoredComponent(components) ==
    \E i \in DOMAIN components : components[i] \in DefaultIgnorePatterns

IsHiddenName(name) ==
    SubSeq(name, 1, 1) = "." /\ name # ".env.example" /\ name # ".gitignore"

EndsWithGlobText(path) ==
    \E n \in {Len(path)} :
       n >= 5 /\ SubSeq(path, n - 4, n) \in {"*.swp", "*.swo"}

\* the two 'true whenever' halves of C15
IgnoredByNameOrDot(components, ignored) ==
    /\ HasIgnoredComponent(components) => ignored
    /\ IsHiddenName(components[Len(components)]) => ignored

\* C15 as stated: should_ignore is true when a component is in the ignore set or
\* the final component is a dot-name other than .env.example and .gitignore, and
\* false when no component is in the set and the final component has no leading dot.
C15_IgnoredByNameOrDotOnly ==
    analysis.op = "should_ignore" =>
        LET components == analysis.input.components IN
        /\ IgnoredByNameOrDot(components, analysis.output)
        /\ (/\ ~HasIgnoredComponent(components)
            /\ SubSeq(components[Len(components)], 1, 1) # ".")
               => ~analysis.output

\* C15: should_ignore is true when a component is in the ignore set or the final
\* component is a dot-name other than .env.example and .gitignore; it is false
\* when no component is in the set, the final component has no leading dot and
\* the path text does not end in the literal characters *.swp or *.swo.
C15_IgnoredByNameDotOrGlobText ==
    analysis.op = "should_ignore" =>
        LET components == analysis.input.components IN
        /\ IgnoredByNameOrDot(components, analysis.output)
        /\ (/\ ~HasIgnoredComponent(components)
            /\ SubSeq(components[Len(components)], 1, 1) # "."
            /\ ~EndsWithGlobText(analysis.input.path))
               => ~analysis.output

\* project/.git/config is ignored for its ancestor directory
C15_Witness ==
    /\ analysis.op = "should_ignore"
    /\ analysis.input.path = "project/.git/config"
    /\ analysis.output

\* ---------------------------------------------------------------------------
\* SpecRead: one read_file_safe or parse_file call on a file system whose files
\* differ in size, in encoding and in permission
\* ---------------------------------------------------------------------------

read_file_safe(path) ==
    /\ analysis' = Analysis("read_file_safe", path, ReadFileSafe(path))
    /\ UNCHANGED <<ingestionVars, scanVars, loaderVars, class_extractor,
                   function_analyzer, dependency_mapper, lastBuilt, held>>

parse_file(path, root_path) ==
    /\ analysis' = Analysis("parse_file", path, ParseFile(path, root_path))
    /\ UNCHANGED <<ingestionVars, scanVars, loaderVars, class_extractor,
                   function_analyzer, dependency_mapper, lastBuilt, held>>

FileSizes == {0, SmallFileBytes, MaxFileSizeBytes, MaxFileSizeBytes + 1, OverCap}

\* <e9> stands for the character U+00E9; its UTF-8 bytes C3 A9 read as the two
\* characters <c3><a9> under Latin-1, and the lone byte E9 is not UTF-8.
ReadVariants ==
    {NodeFileBytes(size, e[1], perm, e[2], e[3]) :
        size \in FileSizes, perm \in {"ok", "denied", "ioerror"},
        e \in {<<TRUE, "x = 1\n", "x = 1\n">>,
               <<TRUE, "# caf<e9>\n", "# caf<c3><a9>\n">>,
               <<FALSE, "", "# caf<e9>\n">>}}

ReadPaths == {"/proj/main.py", "/proj/LICENSE"}

ReadFileSystems ==
    {[p \in Range(ScanPaths) \cup {ProjectDir} |->
         CASE p = ProjectDir -> NodeDir
           [] p = "/proj/main.py" -> a
           [] p = "/proj/LICENSE" -> c
           [] OTHER -> NodeAbsent] :
        a \in ReadVariants \cup {NodeAbsent, NodeDir},
        c \in {NodeAbsent,
               NodeFileBytes(OverCap, TRUE, "ok", "MIT\n", "MIT\n"),
               NodeFileBytes(SmallFileBytes, FALSE, "ok", "", "<a9> MIT\n")}}

NextRead ==
    /\ analysis = NotAnalyzed
    /\ \/ \E path \in ReadPaths : read_file_safe(path)
       \/ \E path \in ReadPaths : parse_file(path, ProjectDir)

InitRead ==
    /\ ingestion = EmptyIngestion
    /\ addCalls = <<>>
    /\ fs \in ReadFileSystems
    /\ scanned = NotScanned
    /\ cloneDirs = {}
    /\ mkdtemps = 0
    /\ lastCall = NotCalled
    /\ class_extractor = NewClassExtractor
    /\ function_analyzer = NewFunctionAnalyzer
    /\ dependency_mapper = NewDependencyMapper
    /\ lastBuilt = NeverBuilt
    /\ analysis = NotAnalyzed
    /\ held = NothingHeld

SpecRead == InitRead /\ [][NextRead]_vars

AstNode(kind, children) == [kind |-> kind, children |-> children]

AstName == AstNode("Name", <<>>)
AstPass == AstNode("Pass", <<>>)
\* a and b and c is ONE BoolOp whose op is one And node and whose values are a, b, c
AstBoolOp(op, values) == AstNode("BoolOp", <<AstNode(op, <<>>)>> \o values)
AstIfExp(test, body, orelse) == AstNode("IfExp", <<test, body, orelse>>)
AstComprehension(ifs) == AstNode("comprehension", <<AstName, AstName>> \o ifs)
AstListComp(generators) == AstNode("ListComp", <<AstName>> \o generators)
AstCall(args) == AstNode("Call", <<AstName>> \o args)
AstReturn(value) == AstNode("Return", <<value>>)
AstIf(test, body) == AstNode("If", <<test>> \o body)
AstLoop(kind, body) == AstNode(kind, <<AstName, AstName>> \o body)
AstWhile(test, body) == AstNode("While", <<test>> \o body)
AstExceptHandler(body) == AstNode("ExceptHandler", <<AstName>> \o body)
AstTry(body, handlers) == AstNode("Try", body \o handlers)
\* FunctionDef._fields: name, args, body, decorator_list, returns
AstArguments(defaults) == AstNode("arguments", defaults)
AstFunctionDef(defaults, body, decorator_list, returns) ==
    [kind |-> "FunctionDef",
     children |-> <<AstArguments(defaults)>> \o body \o decorator_list \o returns,
     body |-> body]

\* ast.walk: breadth first from the node itself
RECURSIVE AstWalkQueue(_)
AstWalkQueue(todo) ==
    IF todo = <<>> THEN <<>>
    ELSE <<Head(todo)>> \o AstWalkQueue(Tail(todo) \o Head(todo).children)

AstWalk(node) == AstWalkQueue(<<node>>)

DecisionKinds ==
    {"If", "While", "For", "AsyncFor", "ExceptHandler", "And", "Or", "comprehension"}

RECURSIVE ComplexityOver(_, _)
ComplexityOver(nodes, complexity) ==
    IF nodes = <<>> THEN complexity
    ELSE ComplexityOver(Tail(nodes),
                        IF Head(nodes).kind \in DecisionKinds
                        THEN complexity + 1 ELSE complexity)

CalculateComplexity(node) == ComplexityOver(AstWalk(node), 1)

calculate_complexity(node) ==
    /\ analysis' = Analysis("_calculate_complexity", node, CalculateComplexity(node))
    /\ UNCHANGED <<ingestionVars, scanVars, loaderVars, class_extractor,
                   function_analyzer, dependency_mapper, lastBuilt, held>>

\* ---------------------------------------------------------------------------
\* SpecComplexity: _calculate_complexity on one function definition
\* ---------------------------------------------------------------------------

MaxBody == 3

AstAnd2 == AstBoolOp("And", <<AstName, AstName>>)
AstAnd3 == AstBoolOp("And", <<AstName, AstName, AstName>>)
AstOrOfAnd == AstBoolOp("Or", <<AstAnd2, AstName>>)

BodyStatements ==
    {AstPass,
     AstReturn(AstAnd3),
     AstReturn(AstIfExp(AstName, AstName, AstName)),
     AstReturn(AstListComp(<<AstComprehension(<<AstName>>), AstComprehension(<<>>)>>)),
     AstIf(AstOrOfAnd, <<AstPass>>),
     AstIf(AstName, <<AstPass>>),
     AstLoop("For", <<AstPass>>),
     AstLoop("AsyncFor", <<AstIf(AstName, <<AstPass>>)>>),
     AstWhile(AstName, <<AstPass>>),
     AstTry(<<AstPass>>, <<AstExceptHandler(<<AstPass>>)>>),
     AstTry(<<AstPass>>, <<AstExceptHandler(<<AstPass>>), AstExceptHandler(<<AstPass>>)>>),
     AstFunctionDef(<<>>, <<AstIf(AstName, <<AstPass>>)>>, <<>>, <<>>)}

Bodies == UNION {[1..n -> BodyStatements] : n \in 1..MaxBody}

\* def f(x=<default>), @<decorator>, -> <annotation>
DefaultLists == {<<>>, <<AstName>>, <<AstAnd2>>}
DecoratorLists == {<<>>, <<AstCall(<<AstOrOfAnd>>)>>}
ReturnAnnotations == {<<>>, <<AstName>>}

NextComplexity ==
    /\ analysis = NotAnalyzed
    /\ \E body \in Bodies, defaults \in DefaultLists, decorator_list \in DecoratorLists,
          returns \in ReturnAnnotations :
          calculate_complexity(AstFunctionDef(defaults, body, decorator_list, returns))

InitComplexity ==
    /\ ingestion = EmptyIngestion
    /\ addCalls = <<>>
    /\ fs = EmptyProject
    /\ scanned = NotScanned
    /\ cloneDirs = {}
    /\ mkdtemps = 0
    /\ lastCall = NotCalled
    /\ class_extractor = NewClassExtractor
    /\ function_analyzer = NewFunctionAnalyzer
    /\ dependency_mapper = NewDependencyMapper
    /\ lastBuilt = NeverBuilt
    /\ analysis = NotAnalyzed
    /\ held = NothingHeld

SpecComplexity == InitComplexity /\ [][NextComplexity]_vars

\* the nodes of the given kinds in the statements of a body, nested ones included
CountInBody(body, kinds) ==
    SeqSum([i \in DOMAIN body |->
               Cardinality({k \in DOMAIN AstWalk(body[i]) : AstWalk(body[i])[k].kind \in kinds})])

\* C17: the complexity of a function is 1 plus the number of if, while, for and
\* async-for nodes, exception handlers, and/or operator nodes and comprehension
\* clauses in its body; so it is at least 1, exactly 1 for a body of pass alone,
\* and exactly 4 for a body with one if, one for and one except clause.
C17_ComplexityCountsBody ==
    analysis.op = "_calculate_complexity" =>
        LET body == analysis.input.body IN
        /\ analysis.output = 1 + CountInBody(body, DecisionKinds)
        /\ analysis.output >= 1
        /\ body = <<AstPass>> => analysis.output = 1
        /\ (/\ CountInBody(body, {"If"}) = 1
            /\ CountInBody(body, {"For"}) = 1
            /\ CountInBody(body, {"ExceptHandler"}) = 1
            /\ CountInBody(body, DecisionKinds) = 3) => analysis.output = 4

\* the same statement for definitions without decorators, defaults and annotations
C17_ComplexityCountsBodyOfPlainDef ==
    (/\ analysis.op = "_calculate_complexity"
     /\ Len(analysis.input.children) = 1 + Len(analysis.input.body)
     /\ analysis.input.children[1].children = <<>>)
        => C17_ComplexityCountsBody

\* ---------------------------------------------------------------------------
\* analyzers/api_detector.py: check_rest_conventions
\* ---------------------------------------------------------------------------

APIEndpoint(path, method) == [path |-> path, method |-> method]

ActionVerbs == <<"get", "create", "update", "delete", "add", "remove">>

HasPlaceholderMarker(path) == Contains(path, "{") \/ Contains(path, "<")

\* [p for p in path.split('/') if p and not p.startswith('{')]
ResourceParts(path) ==
    SelectSeq(Split(path, "/"), LAMBDA p : p # "" /\ ~StartsWith(p, "{"))

VerbViolation(endpoint, verb) ==
    endpoint.method \o " " \o endpoint.path \o ": Contains action verb '" \o verb
        \o "' - use HTTP methods instead"
PluralViolation(endpoint) ==
    endpoint.method \o " " \o endpoint.path \o ": Collection endpoint should use plural noun"
PostViolation(endpoint) ==
    endpoint.method \o " " \o endpoint.path \o ": POST should typically be on collection, not item"

\* the violations one pass of the loop appends
EndpointViolations(endpoint) ==
    LET path == endpoint.path
        method == endpoint.method
        lowered == Lower(path)
        parts == ResourceParts(path)
    IN  MapSeq(LAMBDA verb : VerbViolation(endpoint, verb),
               SelectSeq(ActionVerbs, LAMBDA verb : Contains(lowered, "/" \o verb)))
        \o (IF /\ parts # <<>>
               /\ method = "GET" /\ ~HasPlaceholderMarker(path)
               /\ ~EndsWith(parts[1], "s") /\ parts[1] # "data"
            THEN <<PluralViolation(endpoint)>> ELSE <<>>)
        \o (IF method = "POST" /\ HasPlaceholderMarker(path)
            THEN <<PostViolation(endpoint)>> ELSE <<>>)

RECURSIVE CheckRestConventions(_)
CheckRestConventions(endpoints) ==
    IF endpoints = <<>> THEN <<>>
    ELSE EndpointViolations(Head(endpoints)) \o CheckRestConventions(Tail(endpoints))

\* the endpoint a route of the given segments declares
EndpointOf(route) ==
    APIEndpoint(IF route.segments = <<>> THEN "/" ELSE "/" \o JoinPath(route.segments),
                route.method)

check_rest_conventions(routes) ==
    \E endpoints \in {[i \in DOMAIN routes |-> EndpointOf(routes[i])]} :
       /\ analysis' = Analysis("check_rest_conventions",
                               [routes |-> routes, endpoints |-> endpoints],
                               CheckRestConventions(endpoints))
       /\ UNCHANGED <<ingestionVars, scanVars, loaderVars, class_extractor,
                      function_analyzer, dependency_mapper, lastBuilt, held>>

\* ---------------------------------------------------------------------------
\* SpecRest: check_rest_conventions on a result of one or two endpoints
\* ---------------------------------------------------------------------------

MaxSegments == 2

RouteSegments == {"users", "user", "data", "{id}", "<id>", "Create", "addresses"}
RouteMethods == {"GET", "POST", "DELETE"}

Routes ==
    {[method |-> m, segments |-> s] :
        m \in RouteMethods,
        s \in UNION {[1..n -> RouteSegments] : n \in 0..MaxSegments}}

SecondRoutes ==
    {[method |-> "GET", segments |-> <<"user">>],
     [method |-> "POST", segments |-> <<"users", "{id}">>],
     [method |-> "GET", segments |-> <<"users">>]}

NextRest ==
    /\ analysis = NotAnalyzed
    /\ \E first \in Routes, rest \in {<<>>} \cup {<<r>> : r \in SecondRoutes} :
          check_rest_conventions(<<first>> \o rest)

InitRest ==
    /\ ingestion = EmptyIngestion
    /\ addCalls = <<>>
    /\ fs = EmptyProject
    /\ scanned = NotScanned
    /\ cloneDirs = {}
    /\ mkdtemps = 0
    /\ lastCall = NotCalled
    /\ class_extractor = NewClassExtractor
    /\ function_analyzer = NewFunctionAnalyzer
    /\ dependency_mapper = NewDependencyMapper
    /\ lastBuilt = NeverBuilt
    /\ analysis = NotAnalyzed
    /\ held = NothingHeld

SpecRest == InitRest /\ [][NextRest]_vars

IsPlaceholder(segment) == segment \in {"{id}", "<id>"}

HasPlaceholder(route) == \E i \in DOMAIN route.segments : IsPlaceholder(route.segments[i])

\* a GET on a path without placeholders whose first segment is neither plural nor 'data'
IsSingularGet(route) ==
    /\ route.method = "GET" /\ ~HasPlaceholder(route)
    /\ route.segments # <<>>
    /\ LET first == route.segments[1]
       IN  SubSeq(first, Len(first), Len(first)) # "s" /\ first # "data"

IsItemPost(route) == route.method = "POST" /\ HasPlaceholder(route)

IsVerb(word) == \E i \in DOMAIN ActionVerbs : ActionVerbs[i] = word

HasVerbSegment(route) ==
    \E i \in DOMAIN route.segments : IsVerb(Lower(route.segments[i]))

HasVerbPrefixedSegment(route) ==
    \E i \in DOMAIN route.segments, v \in DOMAIN ActionVerbs :
       StartsWith(Lower(route.segments[i]), ActionVerbs[v])

ViolationsFor(endpoint, violations) ==
    {k \in DOMAIN violations :
        StartsWith(violations[k], endpoint.method \o " " \o endpoint.path \o ":")}

RestFlagged(routes, endpoints, violations) ==
    \A i \in DOMAIN routes :
       /\ IsSingularGet(routes[i]) =>
             \E k \in DOMAIN violations :
                violations[k] = endpoints[i].method \o " " \o endpoints[i].path
                                    \o ": Collection endpoint should use plural noun"
       /\ IsItemPost(routes[i]) =>
             \E k \in DOMAIN violations :
                violations[k] = endpoints[i].method \o " " \o endpoints[i].path
                                    \o ": POST should typically be on collection, not item"

\* C18: every GET endpoint without a placeholder whose first segment is neither
\* plural nor 'data' gets a plural-noun violation, every POST endpoint with a
\* placeholder gets a POST-on-collection violation, and an endpoint that meets
\* neither condition and has no segment that is an action verb gets no violation.
C18_RestViolations ==
    analysis.op = "check_rest_conventions" =>
        LET routes == analysis.input.routes
            endpoints == analysis.input.endpoints
        IN  /\ RestFlagged(routes, endpoints, analysis.output)
            /\ \A i \in DOMAIN routes :
                  (~IsSingularGet(routes[i]) /\ ~IsItemPost(routes[i])
                       /\ ~HasVerbSegment(routes[i]))
                     => ViolationsFor(endpoints[i], analysis.output) = {}

\* the same statement, with 'no segment that begins with an action verb'
C18_RestViolationsByVerbPrefix ==
    analysis.op = "check_rest_conventions" =>
        LET routes == analysis.input.routes
            endpoints == analysis.input.endpoints
        IN  /\ RestFlagged(routes, endpoints, analysis.output)
            /\ \A i \in DOMAIN routes :
                  (~IsSingularGet(routes[i]) /\ ~IsItemPost(routes[i])
                       /\ ~HasVerbPrefixedSegment(routes[i]))
                     => ViolationsFor(endpoints[i], analysis.output) = {}

\* ---------------------------------------------------------------------------
\* analyzers/class_extractor.py: detect_design_patterns
\* ---------------------------------------------------------------------------

PatternNames == <<"Singleton", "Factory", "Builder", "Adapter", "Decorator", "Observer">>

\* any(pred(m.name) for m in cls.methods)
AnyMethod(cls, pred(_)) == \E i \in DOMAIN cls.methods : pred(cls.methods[i].name)

\* ClassInfo.get_constructor() is not None
HasConstructor(cls) == AnyMethod(cls, LAMBDA name : name = "__init__")

\* A detector that compares the class name as written.
PatternsOfClassCaseSensitive(cls) ==
    {p \in Range(PatternNames) :
        \/ p = "Factory" /\ (Contains(cls.name, "factory")
                               \/ AnyMethod(cls, LAMBDA name : StartsWith(name, "create")))
        \/ p = "Builder" /\ (Contains(cls.name, "builder")
                               \/ AnyMethod(cls, LAMBDA name : name = "build"))}

\* the patterns whose list one pass of the loop appends cls.name to
PatternsOfClass(cls) ==
    LET class_name_lower == Lower(cls.name) IN
    {p \in Range(PatternNames) :
        \/ p = "Singleton"
              /\ HasConstructor(cls)
              /\ AnyMethod(cls, LAMBDA name : name \in {"get_instance", "getInstance"})
        \/ p = "Factory" /\ (Contains(class_name_lower, "factory")
                               \/ AnyMethod(cls, LAMBDA name : StartsWith(name, "create")))
        \/ p = "Builder" /\ (Contains(class_name_lower, "builder")
                               \/ AnyMethod(cls, LAMBDA name : name = "build"))
        \/ p = "Adapter" /\ Contains(class_name_lower, "adapter")
        \/ p = "Decorator" /\ Contains(class_name_lower, "decorator")
        \/ p = "Observer" /\ (AnyMethod(cls, LAMBDA name : Contains(Lower(name), "subscribe"))
                                \/ AnyMethod(cls, LAMBDA name : Contains(Lower(name), "notify")))}

RECURSIVE CollectPatterns(_, _)
CollectPatterns(classes, patterns) ==
    IF classes = <<>> THEN patterns
    ELSE \* bind the set once
         LET matched == PatternsOfClass(Head(classes))
         IN  CollectPatterns(Tail(classes),
                 [i \in DOMAIN patterns |->
                     IF patterns[i][1] \in matched
                     THEN <<patterns[i][1], Append(patterns[i][2], Head(classes).name)>>
                     ELSE patterns[i]])

\* return {k: v for k, v in patterns.items() if v}
DetectDesignPatterns(classes) ==
    SelectSeq(CollectPatterns(classes, [i \in DOMAIN PatternNames |-> <<PatternNames[i], <<>>>>]),
              LAMBDA entry : entry[2] # <<>>)

detect_design_patterns(classes) ==
    /\ analysis' = Analysis("detect_design_patterns", classes, DetectDesignPatterns(classes))
    /\ UNCHANGED <<ingestionVars, scanVars, loaderVars, class_extractor,
                   function_analyzer, dependency_mapper, lastBuilt, held>>

\* ---------------------------------------------------------------------------
\* SpecPatterns: detect_design_patterns on one or two classes
\* ---------------------------------------------------------------------------

MaxMethods == 2

PatternClassNames == {"Widget", "WidgetFactory", "FACTORYFloor", "QueryBuilder", "Rebuilder"}
PatternMethodNames ==
    {"create_user", "Create", "recreate", "build", "build_all", "__init__", "get_instance",
     "notify"}

MethodNamed(name) == FunctionInfo(name, "METHOD", <<>>, 1)

PatternClasses ==
    {ClassInfo(name, <<>>, [i \in DOMAIN methods |-> MethodNamed(methods[i])], 1) :
        name \in PatternClassNames,
        methods \in UNION {[1..n -> PatternMethodNames] : n \in 0..MaxMethods}}

SecondClasses ==
    {ClassInfo("Widget", <<>>, <<MethodNamed("build")>>, 9),
     ClassInfo("Widget", <<>>, <<>>, 9),
     ClassInfo("Plain", <<>>, <<MethodNamed("run")>>, 9)}

NextPatterns ==
    /\ analysis = NotAnalyzed
    /\ \E first \in PatternClasses, rest \in {<<>>} \cup {<<c>> : c \in SecondClasses} :
          detect_design_patterns(<<first>> \o rest)

InitPatterns ==
    /\ ingestion = EmptyIngestion
    /\ addCalls = <<>>
    /\ fs = EmptyProject
    /\ scanned = NotScanned
    /\ cloneDirs = {}
    /\ mkdtemps = 0
    /\ lastCall = NotCalled
    /\ class_extractor = NewClassExtractor
    /\ function_analyzer = NewFunctionAnalyzer
    /\ dependency_mapper = NewDependencyMapper
    /\ lastBuilt = NeverBuilt
    /\ analysis = NotAnalyzed
    /\ held = NothingHeld

SpecPatterns == InitPatterns /\ [][NextPatterns]_vars

MethodNamesOf(cls) == {cls.methods[i].name : i \in DOMAIN cls.methods}

IsFactory(cls) ==
    \/ \E i \in 1..(Len(cls.name) - 6) : Lower(SubSeq(cls.name, i, i + 6)) = "factory"
    \/ \E name \in MethodNamesOf(cls) : Len(name) >= 6 /\ SubSeq(name, 1, 6) = "create"

IsBuilder(cls) ==
    \/ \E i \in 1..(Len(cls.name) - 6) : Lower(SubSeq(cls.name, i, i + 6)) = "builder"
    \/ "build" \in MethodNamesOf(cls)

ListedExactly(classes, listed, Matches(_)) ==
    \A i \in DOMAIN classes :
       CountOf(listed, classes[i].name) =
           Cardinality({j \in DOMAIN classes :
                           classes[j].name = classes[i].name /\ Matches(classes[j])})

\* C19: the Factory list names exactly the classes whose name contains 'factory'
\* in any letter case or that have a method starting with 'create', the Builder
\* list exactly those whose name contains 'builder' or that have a method named
\* 'build', and no pattern of the returned map has an empty list.
C19_FactoryAndBuilderLists ==
    analysis.op = "detect_design_patterns" =>
        LET classes == analysis.input
            patterns == analysis.output
        IN  /\ ListedExactly(classes, DictGet(patterns, "Factory", <<>>), IsFactory)
            /\ ListedExactly(classes, DictGet(patterns, "Builder", <<>>), IsBuilder)
            /\ \A k \in DOMAIN patterns : patterns[k][2] # <<>>
            /\ \A k \in DOMAIN patterns :
                  \A n \in DOMAIN patterns[k][2] :
                     \E i \in DOMAIN classes : classes[i].name = patterns[k][2][n]

\* a class listed under Factory for its upper-case name alone, with no Builder entry
C19_Witness ==
    /\ analysis.op = "detect_design_patterns"
    /\ analysis.input[1].name = "FACTORYFloor"
    /\ ~IsBuilder(analysis.input[1])
    /\ MethodNamesOf(analysis.input[1]) = {"recreate"}
    /\ Len(analysis.input) = 1
    /\ analysis.output = << <<"Factory", <<"FACTORYFloor">>>> >>

\* C20: every list that find_circular_dependencies returns is a closed walk of
\* the dependency graph: it ends where it begins, each consecutive pair is an
\* edge of the forward map, no module but the closing one occurs twice, and it
\* begins at the smallest module name of the list.
C20_ReportedListsAreCycles ==
    analysis.op = "find_circular_dependencies" =>
        \A c \in DOMAIN analysis.output :
           LET cycle == analysis.output[c]
               n == Len(cycle)
           IN  /\ n >= 2
               /\ cycle[1] = cycle[n]
               /\ \A i \in 1..(n - 1) :
                     cycle[i + 1] \in Range(DictGet(dependency_mapper.dependency_graph,
                                                    cycle[i], <<>>))
               /\ \A i, j \in 1..(n - 1) : i # j => cycle[i] # cycle[j]
               /\ \A i \in 1..n : ~StrLess(cycle[i], cycle[1])

\* the analyzed modules that import no analyzed module
ModulesWithoutDependencies ==
    {m \in Range(DictKeys(dependency_mapper.dependency_graph)) :
        \A i \in DOMAIN lastBuilt.dependency_mapper.returned :
           lastBuilt.dependency_mapper.returned[i].source # m}

\* C25: after build_dependency_graph, find_root_modules returns exactly the
\* analyzed modules without internal dependencies, imported or not.
C25_RootsHaveNoDependencies ==
    (analysis.op = "find_root_modules" /\ lastBuilt.dependency_mapper.built) =>
        /\ Range(analysis.output) = ModulesWithoutDependencies
        /\ \A i, j \in DOMAIN analysis.output :
              i # j => analysis.output[i] # analysis.output[j]

\* the same statement for the modules that some analyzed module imports
C25_ImportedRootsHaveNoDependencies ==
    (analysis.op = "find_root_modules" /\ lastBuilt.dependency_mapper.built) =>
        /\ Range(analysis.output) =
              {m \in ModulesWithoutDependencies :
                  \E i \in DOMAIN lastBuilt.dependency_mapper.returned :
                     lastBuilt.dependency_mapper.returned[i].target = m}
        /\ \A i, j \in DOMAIN analysis.output :
              i # j => analysis.output[i] # analysis.output[j]

SetMax(S) == CHOOSE x \in S : \A y \in S : y <= x

DependenciesOf(module) == Range(DictGet(dependency_mapper.dependency_graph, module, <<>>))

\* the modules reached from the set in at most k steps along dependency edges
RECURSIVE DependenciesWithin(_, _)
DependenciesWithin(modules, k) ==
    IF k = 0 THEN modules
    ELSE DependenciesWithin(modules \cup UNION {DependenciesOf(m) : m \in modules}, k - 1)

GraphModules == Range(DictKeys(dependency_mapper.dependency_graph))

IsAcyclicGraph ==
    \A m \in GraphModules :
       m \notin DependenciesWithin(DependenciesOf(m), Cardinality(GraphModules))

\* the number of edges of the longest dependency chain that starts at module
RECURSIVE LongestChain(_, _)
LongestChain(module, fuel) ==
    IF fuel = 0 \/ DependenciesOf(module) = {} THEN 0
    ELSE 1 + SetMax({LongestChain(d, fuel - 1) : d \in DependenciesOf(module)})

LayersHolding(layers, module) ==
    {i \in DOMAIN layers : \E k \in DOMAIN layers[i][2] : layers[i][2][k] = module}

\* C24: for an acyclic dependency graph, get_dependency_layers puts every module
\* in exactly one layer, once; the layer is 0 for a module without dependencies
\* and otherwise 1 plus the largest layer of its dependencies, which is the
\* length of the longest dependency chain from it; so a module lies strictly
\* above each module it depends on.
C24_LayersOfAcyclicGraph ==
    (analysis.op = "get_dependency_layers" /\ IsAcyclicGraph) =>
        LET layers == analysis.output IN
        /\ \A i, j \in DOMAIN layers : i # j => layers[i][1] # layers[j][1]
        /\ \A m \in GraphModules :
              /\ Cardinality(LayersHolding(layers, m)) = 1
              /\ \A i \in LayersHolding(layers, m) :
                    /\ CountOf(layers[i][2], m) = 1
                    /\ layers[i][1] = LongestChain(m, Cardinality(GraphModules))
                    /\ \A d \in DependenciesOf(m) :
                          \A j \in LayersHolding(layers, d) : layers[j][1] < layers[i][1]
        /\ \A i \in DOMAIN layers :
              Range(layers[i][2]) \subseteq GraphModules /\ layers[i][2] # <<>>

\* three modules in three layers, the top one importing both others
C24_Witness ==
    /\ analysis.op = "get_dependency_layers"
    /\ IsAcyclicGraph
    /\ Len(analysis.output) = 3
    /\ \E m \in GraphModules : Cardinality(DependenciesOf(m)) = 2

CalleesOf(func) == Range(DictGet(function_analyzer.call_graph, func, <<>>))

\* the functions reached from the set in at most k further calls
RECURSIVE CalleesWithin(_, _)
CalleesWithin(funcs, k) ==
    IF k = 0 THEN funcs
    ELSE CalleesWithin(funcs \cup UNION {CalleesOf(f) : f \in funcs}, k - 1)

CallGraphSize ==
    Cardinality(Range(DictKeys(function_analyzer.call_graph))
                \cup Range(DictKeys(function_analyzer.reverse_call_graph)))

Reaches(f, g) == g \in CalleesWithin(CalleesOf(f), CallGraphSize)

\* C22: every group that find_mutually_recursive_functions returns has two or
\* more members, each member reaches every other member (and itself) through
\* call edges, and no two returned groups are the same set.
C22_GroupsLieOnCycles ==
    analysis.op = "find_mutually_recursive_functions" =>
        LET groups == analysis.output IN
        /\ \A i \in DOMAIN groups : Cardinality(groups[i]) >= 2
        /\ \A i \in DOMAIN groups : \A f, g \in groups[i] : Reaches(f, g)
        /\ \A i, j \in DOMAIN groups : i # j => groups[i] # groups[j]

\* the two parts of the statement that do not depend on the order of the path
C22_GroupsArePluralAndDistinct ==
    analysis.op = "find_mutually_recursive_functions" =>
        LET groups == analysis.output IN
        /\ \A i \in DOMAIN groups : Cardinality(groups[i]) >= 2
        /\ \A i, j \in DOMAIN groups : i # j => groups[i] # groups[j]

\* ---------------------------------------------------------------------------
\* analyzers/class_extractor.py: get_class_hierarchy
\* ---------------------------------------------------------------------------

Unbounded == [tag |-> "raise", error |-> "RecursionError"]
NamesFound(names) == [tag |-> "set", names |-> names]

\* _get_ancestors over class_hierarchy and _get_descendants over inheritance_tree:
\* each name of the list, then the result of the call on it. The method keeps no
\* record of the names it has entered, so a call that comes back to a name whose
\* call is still active (calling) recurses until Python raises RecursionError.
RECURSIVE CollectRelatives(_, _, _)
CollectRelatives(relation, class_name, calling) ==
    IF class_name \in calling THEN Unbounded
    ELSE IF ~DictHas(relation, class_name) THEN NamesFound({})
    ELSE LET next == DictGet(relation, class_name, <<>>)
             below == [i \in DOMAIN next |->
                          CollectRelatives(relation, next[i], calling \cup {class_name})]
         IN  IF \E i \in DOMAIN below : below[i].tag = "raise" THEN Unbounded
             ELSE NamesFound(Range(next) \cup UNION {below[i].names : i \in DOMAIN below})

GetAncestors(self, class_name) == CollectRelatives(self.class_hierarchy, class_name, {})
GetDescendants(self, class_name) == CollectRelatives(self.inheritance_tree, class_name, {})

\* list(set(...)): the names once each, in hash order
ListsOfSet(names) == Orderings(names)

\* every value get_class_hierarchy can return, or the exception that leaves it
GetClassHierarchy(self, class_name) ==
    LET ancestors == GetAncestors(self, class_name)
        descendants == GetDescendants(self, class_name)
    IN  IF ancestors.tag = "raise" \/ descendants.tag = "raise" THEN {Unbounded}
        ELSE {[tag |-> "return", ancestors |-> a, descendants |-> d] :
                 a \in ListsOfSet(ancestors.names), d \in ListsOfSet(descendants.names)}

get_class_hierarchy(class_name) ==
    /\ \E outcome \in GetClassHierarchy(class_extractor, class_name) :
          analysis' = Analysis("get_class_hierarchy", class_name, outcome)
    /\ UNCHANGED <<class_extractor, function_analyzer, dependency_mapper, lastBuilt>>
    /\ UNCHANGED <<ingestionVars, scanVars, loaderVars, held>>

\* ---------------------------------------------------------------------------
\* SpecHierarchy: extract_from_modules once, then get_class_hierarchy
\* ---------------------------------------------------------------------------

HierarchyNames == {"A", "B", "C"}
BaseChoices == {<<>>, <<"A">>, <<"B">>, <<"B", "C">>}

HierarchyClasses == {ClassInfo(name, bases, <<>>, 1) : name \in HierarchyNames, bases \in BaseChoices}

\* one or two classes of any names, or A, B and C with any bases
HierarchyClassLists ==
    [{1} -> HierarchyClasses] \cup [{1, 2} -> HierarchyClasses]
    \cup {<<ClassInfo("A", a, <<>>, 1), ClassInfo("B", b, <<>>, 1), ClassInfo("C", c, <<>>, 1)>> :
             a \in BaseChoices, b \in BaseChoices, c \in BaseChoices}

\* each class in a module of its own
ClassModules(classes) ==
    [i \in DOMAIN classes |->
        <<"/p/m" \o ToString(i) \o ".py",
          ModuleInfo("m" \o ToString(i), "/p/m" \o ToString(i) \o ".py",
                     <<>>, <<classes[i]>>, <<>>, 1)>>]

HierarchyResults == {ResultOf(ClassModules(classes)) : classes \in HierarchyClassLists}

NextHierarchy ==
    \/ /\ ~lastBuilt.class_extractor.built
       /\ \E r \in HierarchyResults : extract_from_modules(r)
    \/ /\ lastBuilt.class_extractor.built
       /\ \E class_name \in HierarchyNames \cup {"Missing"} : get_class_hierarchy(class_name)

InitHierarchy ==
    /\ ingestion = EmptyIngestion
    /\ addCalls = <<>>
    /\ fs = EmptyProject
    /\ scanned = NotScanned
    /\ cloneDirs = {}
    /\ mkdtemps = 0
    /\ lastCall = NotCalled
    /\ class_extractor = NewClassExtractor
    /\ function_analyzer = NewFunctionAnalyzer
    /\ dependency_mapper = NewDependencyMapper
    /\ lastBuilt = NeverBuilt
    /\ analysis = NotAnalyzed
    /\ held = NothingHeld

SpecHierarchy == InitHierarchy /\ [][NextHierarchy]_vars

\* the names reached from the set in at most k further steps of the relation
RECURSIVE RelativesWithin(_, _, _)
RelativesWithin(relation, names, k) ==
    IF k = 0 THEN names
    ELSE RelativesWithin(relation,
                         names \cup UNION {Range(DictGet(relation, n, <<>>)) : n \in names},
                         k - 1)

ReachableThrough(relation, class_name) ==
    RelativesWithin(relation, Range(DictGet(relation, class_name, <<>>)),
                    Len(relation) + 1)

IsListOf(list, names) ==
    Range(list) = names /\ \A i, j \in DOMAIN list : i # j => list[i] # list[j]

\* C23: for every map that extract_from_modules builds, cyclic ones included,
\* get_class_hierarchy returns; its ancestors are exactly the names reachable
\* through the declared bases and its descendants exactly those reachable
\* through the reverse map, each once.
C23_HierarchyReturnsReachable ==
    analysis.op = "get_class_hierarchy" =>
        /\ analysis.output.tag = "return"
        /\ IsListOf(analysis.output.ancestors,
                    ReachableThrough(class_extractor.class_hierarchy, analysis.input))
        /\ IsListOf(analysis.output.descendants,
                    ReachableThrough(class_extractor.inheritance_tree, analysis.input))

\* the same statement for the calls that return
C23_ReturnedHierarchyIsReachable ==
    (analysis.op = "get_class_hierarchy" /\ analysis.output.tag = "return") =>
        C23_HierarchyReturnsReachable

\* ---------------------------------------------------------------------------
\* analyzers/ast_analyzer.py: _extract_class and _extract_parameters
\* ---------------------------------------------------------------------------

\* def <name>(<args>): ...   and   class <name>: <body>   as ast nodes
DefNode(name, args) == [kind |-> "FunctionDef", name |-> name, args |-> args]
ClassNode(name, body) == [kind |-> "ClassDef", name |-> name, body |-> body]
AssignNode(name) == [kind |-> "Assign", name |-> name]

NoCurrentClass == "None"

\* the loop over args.args: arg 0 is skipped when self.current_class is set and
\* it is named self or cls
ExtractParameters(args, current_class) ==
    [k \in 1..Len(SelectSeq([i \in DOMAIN args |-> i],
                  LAMBDA i : ~(current_class # NoCurrentClass /\ i = 1
                               /\ args[i] \in {"self", "cls"}))) |->
        args[SelectSeq([i \in DOMAIN args |-> i],
                  LAMBDA i : ~(current_class # NoCurrentClass /\ i = 1
                               /\ args[i] \in {"self", "cls"}))[k]]]

ExtractedFunction(node, node_type, current_class) ==
    [name |-> node.name, node_type |-> node_type,
     parameters |-> ExtractParameters(node.args, current_class)]

ExtractedClass(name, methods, attributes, inner_classes) ==
    [name |-> name, methods |-> methods, attributes |-> attributes,
     inner_classes |-> inner_classes]

RECURSIVE ExtractClassDef(_)
RECURSIVE ExtractClassBody(_, _, _)

\* for item in node.body, with self.current_class as the calls before left it
ExtractClassBody(items, class_info, current_class) ==
    IF items = <<>> THEN class_info
    ELSE IF Head(items).kind = "FunctionDef"
    THEN ExtractClassBody(Tail(items),
             [class_info EXCEPT !.methods =
                 Append(@, ExtractedFunction(Head(items), "METHOD", current_class))],
             current_class)
    ELSE IF Head(items).kind = "Assign"
    THEN ExtractClassBody(Tail(items),
             [class_info EXCEPT !.attributes = Append(@, Head(items).name)], current_class)
    ELSE \* the inner _extract_class ends with self.current_class = None
         ExtractClassBody(Tail(items),
             [class_info EXCEPT !.inner_classes = Append(@, ExtractClassDef(Head(items)))],
             NoCurrentClass)

\* self.current_class = class_info ... self.current_class = None
ExtractClassDef(node) ==
    ExtractClassBody(node.body, ExtractedClass(node.name, <<>>, <<>>, <<>>), node.name)

\* the loop of analyze_file over tree.body; current_class is None between its items
RECURSIVE ExtractTopLevel(_, _)
ExtractTopLevel(body, module_info) ==
    IF body = <<>> THEN module_info
    ELSE IF Head(body).kind = "ClassDef"
    THEN ExtractTopLevel(Tail(body),
             [module_info EXCEPT !.classes = Append(@, ExtractClassDef(Head(body)))])
    ELSE IF Head(body).kind = "FunctionDef"
    THEN ExtractTopLevel(Tail(body),
             [module_info EXCEPT !.functions =
                 Append(@, ExtractedFunction(Head(body), "FUNCTION", NoCurrentClass))])
    ELSE ExtractTopLevel(Tail(body), module_info)

analyze_tree(body) ==
    /\ analysis' = Analysis("analyze_file", body,
                            ExtractTopLevel(body, [classes |-> <<>>, functions |-> <<>>]))
    /\ UNCHANGED <<ingestionVars, scanVars, loaderVars, class_extractor,
                   function_analyzer, dependency_mapper, lastBuilt, held>>

\* ---------------------------------------------------------------------------
\* SpecParameters: analyze_file on a module of functions and classes
\* ---------------------------------------------------------------------------

ArgumentLists == {<<>>, <<"self">>, <<"cls", "x">>, <<"x", "self">>}

MethodNodes == {DefNode("m", args) : args \in ArgumentLists}

InnerClassNodes == {ClassNode("Inner", <<m>>) : m \in MethodNodes}

ClassBodyItems == MethodNodes \cup InnerClassNodes \cup {AssignNode("count")}

ClassBodies == [{1} -> ClassBodyItems] \cup [{1, 2} -> ClassBodyItems]

TopLevelNodes ==
    {DefNode("f", args) : args \in ArgumentLists}
    \cup {ClassNode("Outer", body) : body \in ClassBodies}

ModuleBodies ==
    [{1} -> TopLevelNodes]
    \cup {<<c, f>> : c \in {ClassNode("Outer", <<m>>) : m \in MethodNodes},
                     f \in {DefNode("f", args) : args \in ArgumentLists}}

NextParameters ==
    /\ analysis = NotAnalyzed
    /\ \E body \in ModuleBodies : analyze_tree(body)

InitParameters ==
    /\ ingestion = EmptyIngestion
    /\ addCalls = <<>>
    /\ fs = EmptyProject
    /\ scanned = NotScanned
    /\ cloneDirs = {}
    /\ mkdtemps = 0
    /\ lastCall = NotCalled
    /\ class_extractor = NewClassExtractor
    /\ function_analyzer = NewFunctionAnalyzer
    /\ dependency_mapper = NewDependencyMapper
    /\ lastBuilt = NeverBuilt
    /\ analysis = NotAnalyzed
    /\ held = NothingHeld

SpecParameters == InitParameters /\ [][NextParameters]_vars

WithoutReceiver(args) ==
    IF args # <<>> /\ args[1] \in {"self", "cls"} THEN Tail(args) ELSE args

DefsOf(body) == SelectSeq(body, LAMBDA item : item.kind = "FunctionDef")
ClassDefsOf(body) == SelectSeq(body, LAMBDA item : item.kind = "ClassDef")

\* the methods of the class drop a leading self or cls, and so do those of its
\* inner classes
RECURSIVE MethodsDropReceiver(_, _)
MethodsDropReceiver(node, class_info) ==
    /\ Len(class_info.methods) = Len(DefsOf(node.body))
    /\ \A i \in DOMAIN class_info.methods :
          class_info.methods[i].parameters = WithoutReceiver(DefsOf(node.body)[i].args)
    /\ Len(class_info.inner_classes) = Len(ClassDefsOf(node.body))
    /\ \A i \in DOMAIN class_info.inner_classes :
          MethodsDropReceiver(ClassDefsOf(node.body)[i], class_info.inner_classes[i])

TopLevelKeepsAll(body, module_info) ==
    /\ Len(module_info.functions) = Len(DefsOf(body))
    /\ \A i \in DOMAIN module_info.functions :
          module_info.functions[i].parameters = DefsOf(body)[i].args

\* C26: every method of a class body, wherever it stands (after a nested class,
\* inside a nested class), is recorded without a first parameter named self or
\* cls; a top-level function keeps its first parameter whatever its name.
C26_MethodsDropSelf ==
    analysis.op = "analyze_file" =>
        /\ Len(analysis.output.classes) = Len(ClassDefsOf(analysis.input))
        /\ \A i \in DOMAIN analysis.output.classes :
              MethodsDropReceiver(ClassDefsOf(analysis.input)[i], analysis.output.classes[i])
        /\ TopLevelKeepsAll(analysis.input, analysis.output)

HasMethodAfterClass(node) ==
    \E i, j \in DOMAIN node.body :
       i < j /\ node.body[i].kind = "ClassDef" /\ node.body[j].kind = "FunctionDef"

\* the same statement for classes in which no method follows a nested class
C26_MethodsDropSelfBeforeNestedClass ==
    (/\ analysis.op = "analyze_file"
     /\ \A i \in DOMAIN analysis.input :
           analysis.input[i].kind = "ClassDef" => ~HasMethodAfterClass(analysis.input[i]))
        => C26_MethodsDropSelf

\* ---------------------------------------------------------------------------
\* analyzers/class_extractor.py: get_class_relationships
\* ---------------------------------------------------------------------------

\* Optional[str]: None, or the text of the annotation
NoText == [tag |-> "None"]
Text(s) == [tag |-> "Some", text |-> s]

\* a text that is not None and not empty passes `if x:`
TextGiven(t) == t # NoText /\ t.text # ""

TypedMethod(parameters, return_type) ==
    [parameters |-> parameters, return_type |-> return_type]

RelatedClass(name, base_classes, attributes, methods) ==
    [name |-> name, base_classes |-> base_classes, attributes |-> attributes,
     methods |-> methods]

Relationship(source, relation, target) == <<source, relation, target>>

InheritsOf(cls) == {Relationship(cls.name, "inherits", base) : base \in Range(cls.base_classes)}

ContainsOf(cls, classes) ==
    {Relationship(cls.name, "contains", other_cls.name) :
        other_cls \in {o \in Range(classes) :
            \E attr \in Range(cls.attributes) : Contains(Lower(attr), Lower(o.name))}}

UsesOf(cls, classes) ==
    {Relationship(cls.name, "uses", other_cls.name) :
        other_cls \in {o \in Range(classes) :
            \E method \in Range(cls.methods) :
               \/ \E param \in Range(method.parameters) :
                     TextGiven(param) /\ o.name = param.text
               \/ TextGiven(method.return_type) /\ o.name = method.return_type.text}}

RelationshipsOf(classes) ==
    UNION {InheritsOf(cls) \cup ContainsOf(cls, classes) \cup UsesOf(cls, classes) :
              cls \in Range(classes)}

\* list(set(relationships)): the triples once each, in the order of the set
GetClassRelationships(classes) == Orderings(RelationshipsOf(classes))

get_class_relationships(classes) ==
    /\ \E relationships \in GetClassRelationships(classes) :
          analysis' = Analysis("get_class_relationships", classes, relationships)
    /\ UNCHANGED <<ingestionVars, scanVars, loaderVars, class_extractor,
                   function_analyzer, dependency_mapper, lastBuilt, held>>

\* ---------------------------------------------------------------------------
\* SpecRelationships: get_class_relationships on lists of one or two classes
\* ---------------------------------------------------------------------------

AnnotationChoices == {NoText, Text(""), Text("User"), Text("Order"), Text("user")}

TypedMethods ==
    {TypedMethod(<<p>>, NoText) : p \in AnnotationChoices}
    \cup {TypedMethod(<<>>, r) : r \in {Text("User"), Text("Order")}}

AttributeLists == {<<>>, <<"user_id">>, <<"orders">>, <<"name", "ORDER_LOG">>}

UserClasses ==
    {RelatedClass("User", <<>>, attributes, <<method>>) :
        attributes \in AttributeLists, method \in TypedMethods}

OrderClasses ==
    {RelatedClass("Order", bases, <<"user_ref">>, methods) :
        bases \in {<<>>, <<"Base">>, <<"Base", "Base">>},
        methods \in {<<>>, <<TypedMethod(<<Text("User"), Text("User")>>, Text("User"))>>}}

RelatedClassLists ==
    {<<u>> : u \in UserClasses} \cup {<<u, o>> : u \in UserClasses, o \in OrderClasses}

NextRelationships ==
    /\ analysis = NotAnalyzed
    /\ \E classes \in RelatedClassLists : get_class_relationships(classes)

InitRelationships ==
    /\ ingestion = EmptyIngestion
    /\ addCalls = <<>>
    /\ fs = EmptyProject
    /\ scanned = NotScanned
    /\ cloneDirs = {}
    /\ mkdtemps = 0
    /\ lastCall = NotCalled
    /\ class_extractor = NewClassExtractor
    /\ function_analyzer = NewFunctionAnalyzer
    /\ dependency_mapper = NewDependencyMapper
    /\ lastBuilt = NeverBuilt
    /\ analysis = NotAnalyzed
    /\ held = NothingHeld

SpecRelationships == InitRelationships /\ [][NextRelationships]_vars

ClassesNamed(classes, name) == {c \in Range(classes) : c.name = name}

AttributeNames(classes, source) ==
    UNION {Range(c.attributes) : c \in ClassesNamed(classes, source)}

TypeTexts(classes, source) ==
    UNION {UNION {{p.text : p \in {q \in Range(m.parameters) : q # NoText}}
                  \cup (IF m.return_type # NoText THEN {m.return_type.text} ELSE {}) :
                  m \in Range(c.methods)} : c \in ClassesNamed(classes, source)}

ContainsJustified(classes, triple) ==
    /\ ClassesNamed(classes, triple[3]) # {}
    /\ \E attr \in AttributeNames(classes, triple[1]) :
          Contains(Lower(attr), Lower(triple[3]))

UsesJustified(classes, triple) ==
    /\ ClassesNamed(classes, triple[3]) # {}
    /\ triple[3] \in TypeTexts(classes, triple[1])

NoDuplicateTriple(relationships) ==
    \A i, j \in DOMAIN relationships : relationships[i] = relationships[j] => i = j

\* C27: a 'contains' triple goes only from a class to ANOTHER class whose
\* lower-cased name is a substring of one of the lower-cased attribute names of
\* the source, a 'uses' triple only to ANOTHER class named exactly by a method
\* parameter type or return type of the source; no 'contains' or 'uses' triple
\* has its source equal to its target, and no triple is returned twice.
C27_RelationshipsToOtherClasses ==
    analysis.op = "get_class_relationships" =>
        /\ NoDuplicateTriple(analysis.output)
        /\ \A triple \in Range(analysis.output) :
              /\ triple[2] = "contains" =>
                    ContainsJustified(analysis.input, triple) /\ triple[1] # triple[3]
              /\ triple[2] = "uses" =>
                    UsesJustified(analysis.input, triple) /\ triple[1] # triple[3]

\* the same statement with the source itself allowed as the target
C27_RelationshipsToListedClasses ==
    analysis.op = "get_class_relationships" =>
        /\ NoDuplicateTriple(analysis.output)
        /\ \A triple \in Range(analysis.output) :
              /\ triple[2] = "contains" => ContainsJustified(analysis.input, triple)
              /\ triple[2] = "uses" => UsesJustified(analysis.input, triple)

\* ---------------------------------------------------------------------------
\* SpecMirror: build_dependency_graph and build_call_graph, again and again, on
\* results with repeated imports and repeated calls
\* ---------------------------------------------------------------------------

MirrorResults ==
    BuildResults
    \cup {ResultOf(<<<<"/p/api.py",
                       ModuleInfo("api", "/p/api.py",
                                  <<ImportInfo("app", <<"app">>, FALSE, 1),
                                    ImportInfo("app.core", <<"start">>, TRUE, 2),
                                    ImportInfo("api", <<"api">>, FALSE, 3)>>,
                                  <<>>,
                                  <<FunctionInfo("run", "FUNCTION",
                                                 <<"start", "start", "run", "print">>, 4)>>,
                                  4)>>,
                     <<"/p/app.py",
                       ModuleInfo("app", "/p/app.py",
                                  <<ImportInfo("api", <<"run">>, TRUE, 1)>>,
                                  <<>>,
                                  <<FunctionInfo("start", "FUNCTION", <<"run">>, 2)>>, 2)>>>>),
          ResultOf(<<<<"/p/a/util.py",
                       ModuleInfo("util", "/p/a/util.py",
                                  <<ImportInfo("util", <<"util">>, FALSE, 1)>>,
                                  <<>>,
                                  <<FunctionInfo("help", "FUNCTION", <<"help">>, 2)>>, 2)>>,
                     <<"/p/b/util.py",
                       ModuleInfo("util", "/p/b/util.py",
                                  <<ImportInfo("util", <<"help">>, TRUE, 1),
                                    ImportInfo("util", <<"help">>, TRUE, 2)>>,
                                  <<>>,
                                  <<FunctionInfo("help", "FUNCTION",
                                                 <<"help", "open">>, 3)>>, 3)>>>>)}

NextMirror ==
    \/ \E r \in MirrorResults : build_dependency_graph(r)
    \/ \E r \in MirrorResults : build_call_graph(r)

InitMirror ==
    /\ ingestion = EmptyIngestion
    /\ addCalls = <<>>
    /\ fs = EmptyProject
    /\ scanned = NotScanned
    /\ cloneDirs = {}
    /\ mkdtemps = 0
    /\ lastCall = NotCalled
    /\ class_extractor = NewClassExtractor
    /\ function_analyzer = NewFunctionAnalyzer
    /\ dependency_mapper = NewDependencyMapper
    /\ lastBuilt = NeverBuilt
    /\ analysis = NotAnalyzed
    /\ held = NothingHeld

SpecMirror == InitMirror /\ [][NextMirror]_vars

\* the keys of a map and the names in its lists
NamesIn(graph) ==
    Range(DictKeys(graph)) \cup UNION {Range(targets) : targets \in Range(DictValues(graph))}

TimesIn(graph, key, name) == CountOf(DictGet(graph, key, <<>>), name)

DependencyEdgesBetween(edges, s, t) ==
    Cardinality({i \in DOMAIN edges : edges[i].source = s /\ edges[i].target = t})

CallEdgesBetween(edges, s, t) ==
    Cardinality({i \in DOMAIN edges : edges[i].caller = s /\ edges[i].callee = t})

DependencyNames ==
    NamesIn(dependency_mapper.dependency_graph)
    \cup NamesIn(dependency_mapper.reverse_dependency_graph)
    \cup {e.source : e \in Range(lastBuilt.dependency_mapper.returned)}
    \cup {e.target : e \in Range(lastBuilt.dependency_mapper.returned)}

CallNames ==
    NamesIn(function_analyzer.call_graph)
    \cup NamesIn(function_analyzer.reverse_call_graph)
    \cup {e.caller : e \in Range(lastBuilt.function_analyzer.returned)}
    \cup {e.callee : e \in Range(lastBuilt.function_analyzer.returned)}

DependencyMapsMirror ==
    lastBuilt.dependency_mapper.built =>
        \A s, t \in DependencyNames :
           /\ TimesIn(dependency_mapper.dependency_graph, s, t)
                 = TimesIn(dependency_mapper.reverse_dependency_graph, t, s)
           /\ TimesIn(dependency_mapper.dependency_graph, s, t)
                 = DependencyEdgesBetween(lastBuilt.dependency_mapper.returned, s, t)

CallMapsMirror ==
    lastBuilt.function_analyzer.built =>
        \A s, t \in CallNames :
           /\ TimesIn(function_analyzer.call_graph, s, t)
                 = TimesIn(function_analyzer.reverse_call_graph, t, s)
           /\ TimesIn(function_analyzer.call_graph, s, t)
                 = CallEdgesBetween(lastBuilt.function_analyzer.returned, s, t)

\* C28: after every build_dependency_graph call, module t stands k times in the
\* forward list of s exactly when s stands k times in the reverse list of t, and
\* the returned edge list has exactly k edges from s to t; after every
\* build_call_graph call the same holds of call_graph, reverse_call_graph and
\* the returned call edges.
C28_MapsMirrorEdges == DependencyMapsMirror /\ CallMapsMirror

\* both graphs have been rebuilt on another result, the dependency graph holds
\* one import twice, the call graph one call twice, and each has a self-edge
C28_Witness ==
    /\ lastBuilt.dependency_mapper.built /\ lastBuilt.dependency_mapper.replaced
    /\ lastBuilt.function_analyzer.built /\ lastBuilt.function_analyzer.replaced
    /\ \E s, t \in DependencyNames :
          s # t /\ TimesIn(dependency_mapper.dependency_graph, s, t) = 2
    /\ \E s \in DependencyNames : TimesIn(dependency_mapper.dependency_graph, s, s) >= 1
    /\ \E s, t \in CallNames : s # t /\ TimesIn(function_analyzer.call_graph, s, t) = 2
    /\ \E s \in CallNames : TimesIn(function_analyzer.reverse_call_graph, s, s) >= 1

\* ---------------------------------------------------------------------------
\* ingest/github_loader.py: load_repository as far as its ingestion goes, and
\* load_github_file.  The clone has succeeded and its working tree is the
\* project directory of fs.
\* ---------------------------------------------------------------------------

\* self.scanner.scan_directory(clone_path), then the metadata made GITHUB
LoadRepositoryOfClone(repo_url, clone_path, structureFails) ==
    LET repo_info == ExtractRepoInfo(repo_url)
        scan == ScanDirectory(clone_path, TRUE, structureFails)
    IN IF repo_info.tag = "raise" THEN Raised(repo_info.error)
       ELSE IF scan.tag = "raise" THEN scan
       ELSE Returned([scan.ingestion EXCEPT
                         !.metadata.source_type = "GITHUB",
                         !.metadata.source_location = repo_info.url])

\* Path(file_path): a leading ./ is dropped
PathOf(text) ==
    IF Len(text) > 2 /\ StartsWith(text, "./") THEN SubSeq(text, 3, Len(text)) ELSE text

LoadGithubFile(repo_url, file_path, clone_path, structureFails) ==
    LET loaded == LoadRepositoryOfClone(repo_url, clone_path, structureFails)
    IN IF loaded.tag = "raise" THEN loaded
       ELSE LET filtered_files ==
                    SelectSeq(loaded.ingestion.files,
                              LAMBDA f : f.relative_path = PathOf(file_path))
            IN IF filtered_files = <<>> THEN Raised("FileNotFoundError")
               ELSE Returned([metadata |-> loaded.ingestion.metadata,
                              files |-> filtered_files,
                              errors |-> loaded.ingestion.errors,
                              warnings |-> loaded.ingestion.warnings])

load_repository_of_clone(repo_url, structureFails) ==
    /\ scanned = NotScanned
    /\ scanned' = [op |-> "load_repository", paths |-> <<ProjectDir>>, recursive |-> TRUE,
                   outcome |-> LoadRepositoryOfClone(repo_url, ProjectDir, structureFails)]
    /\ UNCHANGED <<fs, ingestionVars, loaderVars, analyzerVars>>

load_github_file(repo_url, file_path, structureFails) ==
    /\ scanned = NotScanned
    /\ scanned' = [op |-> "load_github_file", paths |-> <<file_path>>, recursive |-> TRUE,
                   outcome |-> LoadGithubFile(repo_url, file_path, ProjectDir,
                                              structureFails)]
    /\ UNCHANGED <<fs, ingestionVars, loaderVars, analyzerVars>>

\* ---------------------------------------------------------------------------
\* SpecLoadFile: one ingestion operation on one file system
\* ---------------------------------------------------------------------------

RepoFilePaths == {"main.py", "./main.py", "src/app.js", "LICENSE", "docs/missing.md"}

ClonedUrls == {"https://github.com/octocat/repo", "/work/github-notes"}

NextLoadFile ==
    \/ NextScan
    \/ \E u \in ClonedUrls, f \in BOOLEAN : load_repository_of_clone(u, f)
    \/ \E u \in ClonedUrls, p \in RepoFilePaths, f \in BOOLEAN : load_github_file(u, p, f)

InitLoadFile ==
    /\ ingestion = EmptyIngestion
    /\ addCalls = <<>>
    /\ fs \in FileSystems
    /\ scanned = NotScanned
    /\ cloneDirs = {}
    /\ mkdtemps = 0
    /\ lastCall = NotCalled
    /\ class_extractor = NewClassExtractor
    /\ function_analyzer = NewFunctionAnalyzer
    /\ dependency_mapper = NewDependencyMapper
    /\ lastBuilt = NeverBuilt
    /\ analysis = NotAnalyzed
    /\ held = NothingHeld

SpecLoadFile == InitLoadFile /\ [][NextLoadFile]_vars

CountsMatchFiles(ing) ==
    /\ ing.metadata.total_files = Len(ing.files)
    /\ ing.metadata.total_lines =
          SeqSum([i \in DOMAIN ing.files |-> ing.files[i].lines_of_code])

\* C29: every ingestion returned by scan_directory, scan_file, scan_files,
\* load_repository or load_github_file has metadata.total_files equal to the
\* number of its files and metadata.total_lines equal to the sum of their lines.
C29_CountsMatchFiles ==
    (scanned.op # "none" /\ scanned.outcome.tag = "return")
        => CountsMatchFiles(scanned.outcome.ingestion)

\* the same statement for every operation but load_github_file
C29_CountsMatchFilesOfWholeScans ==
    (scanned.op \notin {"none", "load_github_file"} /\ scanned.outcome.tag = "return")
        => CountsMatchFiles(scanned.outcome.ingestion)

\* ---------------------------------------------------------------------------
\* SpecScanFiles: scan_files on lists of paths, a symbolic link among them
\* ---------------------------------------------------------------------------

ScanFilesSystems ==
    {[p \in Range(ScanPaths) \cup {ProjectDir} |->
         CASE p = ProjectDir -> NodeDir
           [] p = "/proj/main.py" -> a
           [] p = "/proj/src/app.js" -> b
           [] p = "/proj/LICENSE" -> c
           [] OTHER -> NodeAbsent] :
        a \in FileVariants("import os\n\nx = 1\n") \cup {NodeAbsent, NodeDir},
        b \in {NodeAbsent, NodeFile(SmallFileBytes, TRUE, "ok", "let a = 1;\n")},
        c \in {NodeFile(SmallFileBytes, TRUE, "ok", "MIT\n"), NodeSymlinkLoop}}

NextScanFiles ==
    \E ps \in SeqsUpTo(Range(ScanPaths), MaxPaths) : scan_files(ps)

InitScanFiles ==
    /\ ingestion = EmptyIngestion
    /\ addCalls = <<>>
    /\ fs \in ScanFilesSystems
    /\ scanned = NotScanned
    /\ cloneDirs = {}
    /\ mkdtemps = 0
    /\ lastCall = NotCalled
    /\ class_extractor = NewClassExtractor
    /\ function_analyzer = NewFunctionAnalyzer
    /\ dependency_mapper = NewDependencyMapper
    /\ lastBuilt = NeverBuilt
    /\ analysis = NotAnalyzed
    /\ held = NothingHeld

SpecScanFiles == InitScanFiles /\ [][NextScanFiles]_vars

EveryPathAccounted ==
    IF scanned.paths = <<>>
    THEN scanned.outcome = Raised("ValueError")
    ELSE /\ scanned.outcome.tag = "return"
         /\ Len(scanned.outcome.ingestion.files)
               + Len(scanned.outcome.ingestion.warnings)
               + Len(scanned.outcome.ingestion.errors) = Len(scanned.paths)

\* C30: scan_files on a non-empty list returns whatever is wrong with a single
\* path, and each input path accounts for exactly one file, one warning or one
\* error of the result, so that files, warnings and errors together number the
\* input paths; on an empty list it raises before an ingestion is made.
C30_EveryPathAccounted ==
    scanned.op = "scan_files" => EveryPathAccounted

\* the same statement for lists without a symbolic link that leads to itself
C30_EveryResolvedPathAccounted ==
    (/\ scanned.op = "scan_files"
     /\ \A i \in DOMAIN scanned.paths : ~ResolveRaises(scanned.paths[i]))
        => EveryPathAccounted

\* ---------------------------------------------------------------------------
\* analyzers/code_analyzer.py: the report operations, and the queries of the
\* analyzers that they call
\* ---------------------------------------------------------------------------

HighCouplingThreshold == 5
GodModuleThreshold == 10

\* the modules of calculate_coupling_metrics at or over the threshold, sorted by
\* total coupling, largest first; modules of equal coupling stay in the order
\* of the set the metrics were made from
IdentifyHighlyCoupledModules(self, threshold) ==
    LET metrics == CalculateCouplingMetrics(self)
        highly_coupled == {<<module, metrics[module].total_coupling>> :
                              module \in {m \in DOMAIN metrics :
                                             metrics[m].total_coupling >= threshold}}
    IN {order \in Orderings(highly_coupled) :
           \A i, j \in DOMAIN order : i < j => order[i][2] >= order[j][2]}

FindGodModules(self, threshold) ==
    SelectSeq(DictKeys(self.reverse_dependency_graph),
              LAMBDA module :
                 Len(DictGet(self.reverse_dependency_graph, module, <<>>)) >= threshold)

FindLeafModules(self) ==
    SelectSeq(DictKeys(self.dependency_graph),
              LAMBDA module : DictGet(self.reverse_dependency_graph, module, <<>>) = <<>>)

NamesOf(functions) == [i \in DOMAIN functions |-> functions[i].name]

FindRecursiveFunctions(functions) ==
    NamesOf(SelectSeq(functions, LAMBDA func : func.name \in Range(func.calls)))

\* a FunctionInfo made from a def without annotation and without async has
\* return_type None and is_async False
ReturnTypeOf(func) == IF "return_type" \in DOMAIN func THEN func.return_type ELSE NoText
IsAsync(func) == IF "is_async" \in DOMAIN func THEN func.is_async ELSE FALSE

SuspiciousCalls == {"print", "open", "write", "read", "append"}

IdentifyPureFunctions(functions) ==
    NamesOf(SelectSeq(functions,
               LAMBDA func :
                  /\ func.node_type # "METHOD"
                  /\ TextGiven(ReturnTypeOf(func))
                  /\ ~\E i \in DOMAIN func.calls :
                        \E sus \in SuspiciousCalls : Contains(Lower(func.calls[i]), sus)))

\* round(len(async_funcs) / len(functions) * 100, 2), in hundredths of a percent
AnalyzeAsyncUsage(functions) ==
    LET async_funcs == SelectSeq(functions, LAMBDA f : IsAsync(f))
    IN [total_functions |-> Len(functions),
        async_functions |-> Len(async_funcs),
        async_percentage_hundredths |->
            IF functions # <<>> THEN (Len(async_funcs) * 10000) \div Len(functions) ELSE 0,
        async_function_names |-> NamesOf(async_funcs)]

\* self is the CodeAnalyzer: its dependency_mapper and its function_analyzer
GetAnalysisSummary(self, result) ==
    [modules |-> Len(result.modules),
     classes |-> Len(result.all_classes),
     functions |-> Len(result.all_functions),
     call_graph_edges |-> Len(result.call_graph),
     dependencies |-> Len(result.dependencies),
     circular_dependencies |-> Len(FindCircularDependencies(self.dependency_mapper)),
     errors |-> Len(result.errors),
     warnings |-> Len(result.warnings)]

GetDependencyReport(self, result) ==
    {[circular_dependencies |-> FindCircularDependencies(self.dependency_mapper),
      coupling_metrics |-> CalculateCouplingMetrics(self.dependency_mapper),
      highly_coupled_modules |-> highly_coupled,
      dependency_layers |-> GetDependencyLayers(self.dependency_mapper),
      god_modules |-> FindGodModules(self.dependency_mapper, GodModuleThreshold),
      leaf_modules |-> FindLeafModules(self.dependency_mapper),
      root_modules |-> FindRootModules(self.dependency_mapper)] :
        highly_coupled \in IdentifyHighlyCoupledModules(self.dependency_mapper,
                                                        HighCouplingThreshold)}

GetFunctionReport(self, result) ==
    {[total_functions |-> Len(result.all_functions),
      recursive_functions |-> FindRecursiveFunctions(result.all_functions),
      mutually_recursive_groups |-> mutual,
      potentially_pure_functions |-> IdentifyPureFunctions(result.all_functions),
      unused_functions |-> GetUnusedFunctions(self.function_analyzer, result.all_functions),
      async_statistics |-> AnalyzeAsyncUsage(result.all_functions)] :
        mutual \in FindMutuallyRecursiveFunctions(self.function_analyzer)}

CodeAnalyzer ==
    [dependency_mapper |-> dependency_mapper, function_analyzer |-> function_analyzer]

get_analysis_summary(result) ==
    /\ analysis' = Analysis("get_analysis_summary", result,
                            GetAnalysisSummary(CodeAnalyzer, result))
    /\ UNCHANGED <<ingestionVars, scanVars, loaderVars, class_extractor,
                   function_analyzer, dependency_mapper, lastBuilt, held>>

get_dependency_report(result) ==
    /\ \E report \in GetDependencyReport(CodeAnalyzer, result) :
          analysis' = Analysis("get_dependency_report", result, report)
    /\ UNCHANGED <<ingestionVars, scanVars, loaderVars, class_extractor,
                   function_analyzer, dependency_mapper, lastBuilt, held>>

get_function_report(result) ==
    /\ \E report \in GetFunctionReport(CodeAnalyzer, result) :
          analysis' = Analysis("get_function_report", result, report)
    /\ UNCHANGED <<ingestionVars, scanVars, loaderVars, class_extractor,
                   function_analyzer, dependency_mapper, lastBuilt, held>>

\* result = analyzer.analyze(ingestion): the caller keeps what analyze returned
keep_result ==
    /\ analysis.op = "analyze"
    /\ held' = analysis.output
    /\ UNCHANGED <<ingestionVars, scanVars, loaderVars, class_extractor,
                   function_analyzer, dependency_mapper, lastBuilt, analysis>>

\* ---------------------------------------------------------------------------
\* SpecReports: analyze calls on one CodeAnalyzer, and reports on a result kept
\* from one of them
\* ---------------------------------------------------------------------------

ReportFiles ==
    [api |-> FileInfoOf("/proj/api.py",
                        "import app\nfrom os import path\ndef run(): app.start()"),
     app |-> FileInfoOf("/proj/app.py",
                        "class App(Base): pass\ndef start(): pass\nLIMIT = 10"),
     lib |-> FileInfoOf("/proj/lib/app.py", "from .api import run")]

ReportIngestions ==
    {IngestionOf(EmptyIngestion, files) :
        files \in {<<>>, <<ReportFiles.app>>, <<ReportFiles.api, ReportFiles.app>>,
                   <<ReportFiles.api, ReportFiles.lib>>}}

NextReports ==
    \/ \E ing \in ReportIngestions : analyze(ing)
    \/ keep_result
    \/ held # NothingHeld /\ get_analysis_summary(held)
    \/ held # NothingHeld /\ get_dependency_report(held)
    \/ held # NothingHeld /\ get_function_report(held)

InitReports ==
    /\ ingestion = EmptyIngestion
    /\ addCalls = <<>>
    /\ fs = EmptyProject
    /\ scanned = NotScanned
    /\ cloneDirs = {}
    /\ mkdtemps = 0
    /\ lastCall = NotCalled
    /\ class_extractor = NewClassExtractor
    /\ function_analyzer = NewFunctionAnalyzer
    /\ dependency_mapper = NewDependencyMapper
    /\ lastBuilt = NeverBuilt
    /\ analysis = NotAnalyzed
    /\ held = NothingHeld

SpecReports == InitReports /\ [][NextReports]_vars

\* the CodeAnalyzer as the analyze call that returned the result left it
AnalyzerAfter(result) ==
    [dependency_mapper |-> DependencyMaps(BuildDependencyGraph(NewDependencyMapper, result)),
     function_analyzer |-> CallMaps(BuildCallGraph(NewFunctionAnalyzer, result))]

ReportsRightAfter(op, result) ==
    CASE op = "get_analysis_summary" -> {GetAnalysisSummary(AnalyzerAfter(result), result)}
      [] op = "get_dependency_report" -> GetDependencyReport(AnalyzerAfter(result), result)
      [] op = "get_function_report" -> GetFunctionReport(AnalyzerAfter(result), result)

ReportOps == {"get_analysis_summary", "get_dependency_report", "get_function_report"}

\* C21: get_analysis_summary(r), get_dependency_report(r) and
\* get_function_report(r) return what they would have returned right after the
\* analyze call that produced r, whatever has been analyzed since.
C21_ReportsProjectResult ==
    analysis.op \in ReportOps =>
        analysis.output \in ReportsRightAfter(analysis.op, analysis.input)

\* the same statement for a result of the latest analyze call
C21_ReportsProjectLatestResult ==
    (/\ analysis.op \in ReportOps
     /\ analysis.input = lastBuilt.dependency_mapper.analysis_result)
        => analysis.output \in ReportsRightAfter(analysis.op, analysis.input)

Init ==
    /\ ingestion = EmptyIngestion
    /\ addCalls = <<>>
    /\ fs \in FileSystems
    /\ scanned = NotScanned
    /\ cloneDirs = {}
    /\ mkdtemps = 0
    /\ lastCall = NotCalled
    /\ class_extractor = NewClassExtractor
    /\ function_analyzer = NewFunctionAnalyzer
    /\ dependency_mapper = NewDependencyMapper
    /\ lastBuilt = NeverBuilt
    /\ analysis = NotAnalyzed
    /\ held = NothingHeld

Next ==
    \/ NextAddFile \/ NextScan \/ NextIngest \/ NextAnalyze \/ NextBuild \/ NextDep
    \/ NextUnused \/ NextVisibility \/ NextDiagrams \/ NextIgnore \/ NextRead
    \/ NextComplexity \/ NextRest \/ NextPatterns
    \/ NextHierarchy \/ NextParameters \/ NextRelationships \/ NextMirror \/ NextLoadFile \/ NextScanFiles \/ NextReports

Spec == Init /\ [][Next]_vars

=============================================================================
